---- MODULE Spec2Model ----
(***************************************************************************)
(* A model of the tool-call transport of mcp-wasm.                         *)
(*                                                                         *)
(* src/src/web/browser-transport.ts holds the BrowserTransport class whose *)
(* send() returns the Response (lines 221-405) and an earlier variant      *)
(* whose send() only notifies the registered callbacks (lines 67-216).     *)
(* Spec is the behaviour of one instance of the first; SpecCb of one       *)
(* instance of the second.                                                 *)
(*                                                                         *)
(* JavaScript runs one task at a time.  An async function runs             *)
(* synchronously up to its first await; what follows the await runs later  *)
(* as a microtask, in FIFO order, after the code that made the call has    *)
(* returned.  A window 'message' event is a task of its own: it runs only  *)
(* when no microtask is left.                                              *)
(***************************************************************************)
EXTENDS Integers, Sequences, FiniteSets, TLC

(***************************************************************************)
(* Bounds of the model.                                                    *)
(***************************************************************************)
\* request ids are 1..MaxId
MaxId == 2
\* observer functions the callers own
NumObservers == 2
\* the callbacks array holds at most this many registrations
MaxCallbacks == 2
\* sends suspended at an await at any one time
MaxPending == 1
\* start() calls in one behaviour (each adds a window listener)
MaxListeners == 2

(***************************************************************************)
(* JavaScript values.                                                      *)
(***************************************************************************)
Undef == [t |-> "undefined"]
Num(n) == [t |-> "number", n |-> n]
Str(s) == [t |-> "string", s |-> s]

\* !v of JavaScript is ~Truthy(v)
Truthy(v) ==
  CASE v.t = "undefined" -> FALSE
    [] v.t = "number" -> v.n # 0
    [] v.t = "string" -> v.s # ""
    [] v.t = "nan" -> FALSE

(***************************************************************************)
(* The envelope (src/src/web/types.ts).                                    *)
(***************************************************************************)
Ids == 1..MaxId

ToolParams(operation, a, b, key, value) ==
  [operation |-> operation, a |-> a, b |-> b, key |-> key, value |-> value]

NoParams == ToolParams(Undef, Undef, Undef, Undef, Undef)

JSONRPCMessage(id, method, name, params) ==
  [jsonrpc |-> "2.0", id |-> id, method |-> method,
   params |-> [name |-> name, params |-> params]]

NoError == [code |-> 0, message |-> ""]

\* a result Response that carries the id of a fixture instead of the request's
ResultResponseFixedId(id, text) ==
  [jsonrpc |-> "2.0", id |-> 1,
   result |-> <<[type |-> "text", text |-> text]>>,
   error |-> NoError]

\* a Response carrying a result: { jsonrpc, id, result: { contents: [{type, text}] } }
ResultResponse(id, text) ==
  [jsonrpc |-> "2.0", id |-> id,
   result |-> <<[type |-> "text", text |-> text]>>,
   error |-> NoError]

\* a Response carrying an error: { jsonrpc, id, error: { code, message } }
ErrorResponse(id, code, message) ==
  [jsonrpc |-> "2.0", id |-> id,
   result |-> <<>>,
   error |-> [code |-> code, message |-> message]]

\* lastResponse before any send: null
NoResponse == [jsonrpc |-> "none", id |-> 0, result |-> <<>>, error |-> NoError]

(***************************************************************************)
(* The requests the callers of the model make.                             *)
(***************************************************************************)
MapKeys == {Str("k"), Str("j"), Str("")}
KeyInputs == {Str("k"), Str("")}
ValueInputs == {Str("v1"), Str("v2")}
OperationInputs == {Str("add"), Str("divide"), Str("pow")}
AInputs == {Num(2)}
BInputs == {Num(0), Num(1)}

CalculateParams ==
  {ToolParams(o, a, b, Undef, Undef) : o \in OperationInputs, a \in AInputs, b \in BInputs}
StorageSetParams ==
  {ToolParams(Undef, Undef, Undef, k, v) : k \in KeyInputs, v \in ValueInputs}
StorageGetParams ==
  {ToolParams(Undef, Undef, Undef, k, Undef) : k \in KeyInputs}

Requests ==
  {JSONRPCMessage(i, "tool", "calculate", p) : i \in Ids, p \in CalculateParams}
  \cup {JSONRPCMessage(i, "tool", "storage-set", p) : i \in Ids, p \in StorageSetParams}
  \cup {JSONRPCMessage(i, m, "storage-get", p) :
          i \in Ids, m \in {"tool", "resource"}, p \in StorageGetParams}
  \cup {JSONRPCMessage(i, m, "nope", NoParams) : i \in Ids, m \in {"tool", "resource"}}
  \cup {JSONRPCMessage(i, m, "test", NoParams) : i \in Ids, m \in {"test", "bogus"}}

(***************************************************************************)
(* The state of one transport.                                             *)
(***************************************************************************)
VARIABLES
  started,       \* BrowserTransport.started
  isTestMode,    \* BrowserTransport.isTestMode
  callbacks,     \* BrowserTransport.callbacks: observers, in registration order
  handles,       \* observers whose unsubscribe function onMessage has returned
  storage,       \* BrowserTransport.storage: Map<string, any>
  lastResponse,  \* BrowserTransport.lastResponse
  pending,       \* sends suspended at 'await this.handleResourceMessage(message)'
  listeners,     \* window 'message' listeners this transport has added
  localStorage,  \* window.localStorage, which the callback-only variant uses
  posted,        \* window.postMessage calls whose 'message' event is still to come
  lastOp,        \* the operation that led to this state, and what it did
  turn,          \* the LLMHandler and the turn processUserInput is working on
  now,           \* what Date.now() returns
  jobs,          \* the microtasks that are still to run, in their order
  servers,       \* what was stored through each McpServer that createServer()
                 \* has returned, and the one whose handler ran last
  upstream       \* the condition of the search service behind TavilyService

\* what lies outside the transport and the LLMHandler
outside == <<now, jobs, servers, upstream>>

vars == <<started, isTestMode, callbacks, handles, storage, lastResponse,
          pending, listeners, localStorage, posted, lastOp, turn, outside>>

Observers == 1..NumObservers

Absent == [t |-> "absent"]

\* what Storage.getItem returns for a key that holds no value
Null == [t |-> "null"]
LocalKeys == {"k", "undefined"}

\* Map.prototype.get
MapGet(map, key) == IF map[key] = Absent THEN Undef ELSE map[key]

\* Map.prototype.set
MapSet(map, key, value) == [map EXCEPT ![key] = value]

Range(s) == {s[i] : i \in 1..Len(s)}

(***************************************************************************)
(* What a call does: it returns a value or throws an Error.                *)
(***************************************************************************)
Return(value, map) == [thrown |-> FALSE, message |-> "", value |-> value, storage |-> map]
Throw(message, map) == [thrown |-> TRUE, message |-> message, value |-> <<>>, storage |-> map]

\* the promise of an async call that has run to its end
Settled(h) == [thrown |-> h.thrown, message |-> h.message, value |-> h.value]

(***************************************************************************)
(* BrowserTransport.handleToolMessage and handleResourceMessage.           *)
(***************************************************************************)
\* NaN
NaN == [t |-> "nan"]

\* the integers a numeric string of the model may spell
Spelled == -9..9

\* ToNumber: what -, * and / make of an operand
ToNumber(v) ==
  CASE v.t = "number" -> v
    [] v.t = "undefined" -> NaN
    [] v.t = "nan" -> NaN
    [] v.t = "string" ->
         IF v.s = "" THEN Num(0)
         ELSE IF \E n \in Spelled : ToString(n) = v.s
           THEN Num(CHOOSE n \in Spelled : ToString(n) = v.s)
         ELSE NaN

\* String(v), which + applies when an operand is a string
\* (and Storage.setItem and Storage.getItem to their arguments)
ToStringJS(v) ==
  CASE v.t = "undefined" -> "undefined"
    [] v.t = "nan" -> "NaN"
    [] v.t = "number" -> ToString(v.n)
    [] v.t = "string" -> v.s

\* a + b: concatenation when an operand is a string
Add(a, b) ==
  IF a.t = "string" \/ b.t = "string" THEN Str(ToStringJS(a) \o ToStringJS(b))
  ELSE IF ToNumber(a) = NaN \/ ToNumber(b) = NaN THEN NaN
  ELSE Num(a.n + b.n)

\* a - b
Subtract(a, b) ==
  IF ToNumber(a) = NaN \/ ToNumber(b) = NaN THEN NaN
  ELSE Num(ToNumber(a).n - ToNumber(b).n)

\* a * b
Multiply(a, b) ==
  IF ToNumber(a) = NaN \/ ToNumber(b) = NaN THEN NaN
  ELSE Num(ToNumber(a).n * ToNumber(b).n)

\* a / b of two doubles, b not 0: the quotient when it is integral;
\* otherwise the fraction itself stands for the non-integral double
Divide(a, b) ==
  IF ToNumber(a) = NaN \/ ToNumber(b) = NaN THEN NaN
  ELSE LET n == ToNumber(a).n
           d == ToNumber(b).n
       IN  IF (n \div d) * d = n THEN Num(n \div d)
           ELSE [t |-> "fraction", n |-> n, d |-> d]

\* result.toString()
ResultToString(v) ==
  IF v.t = "fraction" THEN Str(ToString(v.n) \o "/" \o ToString(v.d))
  ELSE Str(ToStringJS(v))

\* case 'calculate' with the check of the operands made before the check
\* of the divisor
CalculateValidatesFirst(message, map) ==
  LET operation == message.params.params.operation
      a == message.params.params.a
      b == message.params.params.b
  IN  IF ~Truthy(operation) \/ ~Truthy(a) \/ ~Truthy(b) THEN Throw("Invalid params", map)
      ELSE IF operation = Str("divide") /\ b = Num(0) THEN Throw("Division by zero", map)
      ELSE IF operation = Str("add")
        THEN Return(ResultResponse(message.id, ResultToString(Add(a, b))), map)
      ELSE IF operation = Str("subtract")
        THEN Return(ResultResponse(message.id, ResultToString(Subtract(a, b))), map)
      ELSE IF operation = Str("multiply")
        THEN Return(ResultResponse(message.id, ResultToString(Multiply(a, b))), map)
      ELSE IF operation = Str("divide")
        THEN Return(ResultResponse(message.id, ResultToString(Divide(a, b))), map)
      ELSE Throw("Invalid operation", map)

\* case 'calculate'
Calculate(message, map) ==
  LET operation == message.params.params.operation
      a == message.params.params.a
      b == message.params.params.b
  IN  IF operation = Str("divide") /\ b = Num(0) THEN Throw("Division by zero", map)
      ELSE IF ~Truthy(operation) \/ ~Truthy(a) \/ ~Truthy(b) THEN Throw("Invalid params", map)
      ELSE IF operation = Str("add")
        THEN Return(ResultResponse(message.id, ResultToString(Add(a, b))), map)
      ELSE IF operation = Str("subtract")
        THEN Return(ResultResponse(message.id, ResultToString(Subtract(a, b))), map)
      ELSE IF operation = Str("multiply")
        THEN Return(ResultResponse(message.id, ResultToString(Multiply(a, b))), map)
      ELSE IF operation = Str("divide")
        THEN Return(ResultResponse(message.id, ResultToString(Divide(a, b))), map)
      ELSE Throw("Invalid operation", map)

\* case 'storage-set' that keeps the value a key already holds
StorageSetKeepsFirst(message, map) ==
  LET key == message.params.params.key
      value == message.params.params.value
  IN  IF ~Truthy(key) THEN Throw("Key is required", map)
      ELSE Return(ResultResponse(message.id, Str("Value stored successfully")),
                  IF map[key] = Absent THEN MapSet(map, key, value) ELSE map)

\* case 'storage-set'
StorageSet(message, map) ==
  LET key == message.params.params.key
      value == message.params.params.value
  IN  IF ~Truthy(key) THEN Throw("Key is required", map)
      ELSE Return(ResultResponse(message.id, Str("Value stored successfully")),
                  MapSet(map, key, value))

\* case 'storage-get' of handleToolMessage
StorageGet(message, map) ==
  LET key == message.params.params.key
  IN  IF ~Truthy(key) THEN Throw("Key is required", map)
      ELSE IF MapGet(map, key) = Undef THEN Throw("Key not found", map)
      ELSE Return(ResultResponse(message.id, MapGet(map, key)), map)

\* the names handleToolMessage has a case for
ToolNames == {"calculate", "storage-set", "storage-get"}

\* handleToolMessage whose default case answers with a text instead of throwing
handleToolMessageSentinel(message, map) ==
  IF message.method # "tool" THEN Throw("Invalid method", map)
  ELSE CASE message.params.name = "calculate" -> Calculate(message, map)
         [] message.params.name = "storage-set" -> StorageSet(message, map)
         [] message.params.name = "storage-get" -> StorageGet(message, map)
         [] OTHER -> Return(ResultResponse(message.id, Str("Unknown tool")), map)

handleToolMessage(message, map) ==
  IF message.method # "tool" THEN Throw("Invalid method", map)
  ELSE CASE message.params.name = "calculate" -> Calculate(message, map)
         [] message.params.name = "storage-set" -> StorageSet(message, map)
         [] message.params.name = "storage-get" -> StorageGet(message, map)
         [] OTHER -> Throw("Unknown tool", map)

\* handleResourceMessage returns the result object, which send wraps with the id
handleResourceMessage(message, map) ==
  IF message.params.name = "storage-get"
  THEN LET key == message.params.params.key
       IN  IF ~Truthy(key) THEN Throw("Key is required", map)
           ELSE IF MapGet(map, key) = Undef THEN Throw("Key not found", map)
           ELSE Return(<<[type |-> "text", text |-> MapGet(map, key)]>>, map)
  ELSE Throw("Invalid resource", map)

(***************************************************************************)
(* Dispatch: this.callbacks.forEach(callback => callback(response)).       *)
(*                                                                         *)
(* An observer may call an unsubscribe function while it runs.  A          *)
(* reaction names the observer that does so (who) and the observer whose   *)
(* unsubscribe function it calls (target); NoReaction: no observer does.   *)
(***************************************************************************)
NoReaction == [who |-> 0, target |-> 0]

Reactions(cbs) ==
  {NoReaction} \cup {[who |-> w, target |-> t] : w \in Range(cbs), t \in Range(cbs)}

\* Array.prototype.indexOf, 0 for -1
IndexOf(cbs, c) ==
  IF c \in Range(cbs) THEN CHOOSE i \in 1..Len(cbs) : cbs[i] = c /\ \A j \in 1..(i-1) : cbs[j] # c
  ELSE 0

\* the function onMessage returns: indexOf, then splice(index, 1)
Unsub(cbs, c) ==
  LET index == IndexOf(cbs, c)
  IN  IF index > 0 THEN SubSeq(cbs, 1, index - 1) \o SubSeq(cbs, index + 1, Len(cbs))
      ELSE cbs

\* Array.prototype.forEach visits the indices 1..len, len being the length at
\* the start, and skips an index the array no longer has
RECURSIVE ForEachFrom(_, _, _, _, _)
ForEachFrom(cbs, k, len, calls, react) ==
  IF k > len THEN [callbacks |-> cbs, calls |-> calls]
  ELSE IF k > Len(cbs) THEN ForEachFrom(cbs, k + 1, len, calls, react)
  ELSE ForEachFrom(IF cbs[k] = react.who THEN Unsub(cbs, react.target) ELSE cbs,
                   k + 1, len, Append(calls, cbs[k]), react)

ForEach(cbs, react) == ForEachFrom(cbs, 1, Len(cbs), <<>>, react)

(***************************************************************************)
(* lastOp: the operation just performed.  message is the request of a send *)
(* or of a resumed send; out is what the call gave its caller; calls the   *)
(* observers it invoked, in order; late the observers among them that had  *)
(* already been given the Response of a send made later.                   *)
(***************************************************************************)
NoOut == [kind |-> "none", response |-> NoResponse, message |-> ""]
Resolved(response) == [kind |-> "resolved", response |-> response, message |-> ""]
Rejected(message) == [kind |-> "rejected", response |-> NoResponse, message |-> message]
Suspended == [kind |-> "suspended", response |-> NoResponse, message |-> ""]

NoMessage == JSONRPCMessage(0, "", "", NoParams)

Op(op, message, out, calls, late) ==
  [op |-> op, message |-> message, out |-> out, calls |-> calls, late |-> late]

Plain(op) == Op(op, NoMessage, NoOut, <<>>, {})

(***************************************************************************)
(* new LLMHandler(transport, server, modelStatusCallback): engine is null, *)
(* messages holds the system prompt.  Texts are sequences of strings; the  *)
(* other fields are the locals of processUserInput: text is what the       *)
(* engine writes in this turn, rest what it has still to stream, queue the *)
(* tool calls executeToolCalls has still to run, results what it has       *)
(* collected, sent the requests given to transport.send in this turn,      *)
(* shown what the caller's callback was given; outcome tells how the call  *)
(* ended: "returned" with answer, or "rejected" with error.                *)
(***************************************************************************)
SystemMessage == [role |-> "system", content |-> <<"systemPrompt">>]

NewHandler ==
  [engine |-> FALSE, phase |-> "idle", text |-> <<>>, rest |-> <<>>,
   currentResponse |-> <<>>, lastToolCallIndex |-> 0,
   queue |-> <<>>, results |-> <<>>, messages |-> <<SystemMessage>>,
   sent |-> <<>>, shown |-> <<>>, outcome |-> "none", error |-> "", answer |-> <<>>]

(***************************************************************************)
(* new BrowserTransport(isTestMode)                                        *)
(***************************************************************************)
Init ==
  /\ started = FALSE
  /\ isTestMode \in BOOLEAN
  /\ callbacks = <<>>
  /\ handles = {}
  /\ storage = [k \in MapKeys |-> Absent]
  /\ lastResponse = NoResponse
  /\ pending = <<>>
  /\ listeners = 0
  /\ localStorage = [k \in LocalKeys |-> Null]
  /\ posted = <<>>
  /\ lastOp = Plain("new")
  /\ turn = NewHandler
  /\ now = 1
  /\ jobs = <<>>
  /\ servers = [made |-> <<>>, called |-> 0]
  /\ upstream = "up"

(***************************************************************************)
(* start(), stop(), close(), onMessage() and the function it returns.      *)
(***************************************************************************)
\* start() adds handleWindowMessage.bind(this) as a window listener
Start ==
  /\ listeners < MaxListeners
  /\ started' = TRUE
  /\ listeners' = listeners + 1
  /\ lastOp' = Plain("start")
  /\ UNCHANGED <<isTestMode, callbacks, handles, storage, lastResponse,
                 pending, localStorage, posted>>

\* isConnected()
isConnected == started

\* a stop() that resets the flag and forgets to clear the callbacks
StopKeepsCallbacks ==
  /\ started' = FALSE
  /\ lastOp' = Plain("stop")
  /\ UNCHANGED <<isTestMode, callbacks, handles, storage, lastResponse, pending,
                 listeners, localStorage, posted>>

\* stop() passes removeEventListener a new bound function, which is no
\* listener of the window: the listeners start() added stay
Stop ==
  /\ started' = FALSE
  /\ callbacks' = <<>>
  /\ lastOp' = Plain("stop")
  /\ UNCHANGED <<isTestMode, handles, storage, lastResponse, pending,
                 listeners, localStorage, posted>>

\* close() awaits stop()
Close ==
  /\ started' = FALSE
  /\ callbacks' = <<>>
  /\ lastOp' = Plain("close")
  /\ UNCHANGED <<isTestMode, handles, storage, lastResponse, pending,
                 listeners, localStorage, posted>>

OnMessage(c) ==
  /\ Len(callbacks) < MaxCallbacks
  /\ callbacks' = Append(callbacks, c)
  /\ handles' = handles \cup {c}
  /\ lastOp' = Plain("onMessage")
  /\ UNCHANGED <<started, isTestMode, storage, lastResponse, pending,
                 listeners, localStorage, posted>>

\* a call of the function onMessage(c) returned, made outside any dispatch
Unsubscribe(c) ==
  /\ c \in handles
  /\ callbacks' = Unsub(callbacks, c)
  /\ lastOp' = Plain("unsubscribe")
  /\ UNCHANGED <<started, isTestMode, handles, storage, lastResponse, pending,
                 listeners, localStorage, posted>>

(***************************************************************************)
(* send(message)                                                           *)
(***************************************************************************)
\* the guard of send with the test-mode flag read the wrong way round
NotConnectedInverted == ~started /\ isTestMode

\* the guard of send: if (!this.started && !this.isTestMode) throw
NotConnected == ~started /\ ~isTestMode

\* the if / else-if chain of send ending in a tool call instead of a throw
RouteDefaultsToTool(message) ==
  IF message.method \in {"test", "resource"} THEN message.method ELSE "tool"

\* the if / else-if chain of send on message.method
Route(message) ==
  IF message.method \in {"tool", "test", "resource"} THEN message.method ELSE "unknown"

\* method 'test'
TestResponse(message) == ResultResponse(message.id, Str("Test message received"))

\* method 'resource': the Response send builds once the await has resumed
ResourceResponse(message, result) ==
  [jsonrpc |-> "2.0", id |-> message.id, result |-> result, error |-> NoError]

\* a send that throws after having cleared lastResponse
SendRejectsForgets(message, text) ==
  /\ lastOp' = Op("send", message, Rejected(text), <<>>, {})
  /\ lastResponse' = NoResponse
  /\ UNCHANGED <<started, isTestMode, callbacks, handles, storage,
                 pending, listeners, localStorage, posted>>

\* send throws: its promise rejects, nothing else happens
SendRejects(message, text) ==
  /\ lastOp' = Op("send", message, Rejected(text), <<>>, {})
  /\ UNCHANGED <<started, isTestMode, callbacks, handles, storage, lastResponse,
                 pending, listeners, localStorage, posted>>

\* a suspended send that sees observers given the Response of a later send
Overtaken(queue, calls) ==
  [i \in 1..Len(queue) |-> [queue[i] EXCEPT !.sawLater = @ \cup Range(calls)]]

\* send returning its Response without keeping it as lastResponse
SendDeliversKeepsLast(message, response, map, react) ==
  LET d == ForEach(callbacks, react)
  IN  /\ storage' = map
      /\ lastResponse' = lastResponse
      /\ callbacks' = d.callbacks
      /\ pending' = Overtaken(pending, d.calls)
      /\ lastOp' = Op("send", message, Resolved(response), d.calls, {})
      /\ UNCHANGED <<started, isTestMode, handles, listeners, localStorage, posted>>

\* this.lastResponse = response; this.callbacks.forEach(...); return response
SendDelivers(message, response, map, react) ==
  LET d == ForEach(callbacks, react)
  IN  /\ storage' = map
      /\ lastResponse' = response
      /\ callbacks' = d.callbacks
      /\ pending' = Overtaken(pending, d.calls)
      /\ lastOp' = Op("send", message, Resolved(response), d.calls, {})
      /\ UNCHANGED <<started, isTestMode, handles, listeners, localStorage, posted>>

\* handleResourceMessage has run to its end; send waits for its promise
SendSuspends(message) ==
  /\ Len(pending) < MaxPending
  /\ pending' = Append(pending, [message |-> message,
                                 settled |-> Settled(handleResourceMessage(message, storage)),
                                 sawLater |-> {}])
  /\ lastOp' = Op("send", message, Suspended, <<>>, {})
  /\ UNCHANGED <<started, isTestMode, callbacks, handles, storage,
                 lastResponse, listeners, localStorage, posted>>

Send(message, react) ==
  IF NotConnected THEN
    react = NoReaction /\ SendRejects(message, "Transport not connected")
  ELSE IF Route(message) = "tool" THEN
    LET h == handleToolMessage(message, storage)
    IN  IF h.thrown THEN react = NoReaction /\ SendRejects(message, h.message)
        ELSE SendDelivers(message, h.value, h.storage, react)
  ELSE IF Route(message) = "test" THEN
    SendDelivers(message, TestResponse(message), storage, react)
  ELSE IF Route(message) = "resource" THEN
    react = NoReaction /\ SendSuspends(message)
  ELSE
    react = NoReaction /\ SendRejects(message, "Unknown method: " \o message.method)

\* the microtask that resumes the oldest suspended send
ResumeSend(react) ==
  /\ pending # <<>>
  /\ LET head == pending[1]
         d == ForEach(callbacks, react)
         response == ResourceResponse(head.message, head.settled.value)
     IN  IF head.settled.thrown THEN
           /\ react = NoReaction
           /\ pending' = Tail(pending)
           /\ lastOp' = Op("resume", head.message, Rejected(head.settled.message),
                           <<>>, {})
           /\ UNCHANGED <<started, isTestMode, callbacks, handles, storage,
                          lastResponse, listeners, localStorage, posted>>
         ELSE
           /\ lastResponse' = response
           /\ callbacks' = d.callbacks
           /\ pending' = Tail(pending)
           /\ lastOp' = Op("resume", head.message, Resolved(response), d.calls,
                           Range(d.calls) \cap head.sawLater)
           /\ UNCHANGED <<started, isTestMode, handles, storage, listeners, localStorage, posted>>

(***************************************************************************)
(* A window 'message' event: every listener this transport added runs      *)
(* handleWindowMessage.                                                    *)
(***************************************************************************)
EventTypes == {"mcp-message", "other"}

handleWindowMessage(cbs, type, react) ==
  IF type = "mcp-message" THEN ForEach(cbs, react)
  ELSE [callbacks |-> cbs, calls |-> <<>>]

RECURSIVE RunListeners(_, _, _, _, _)
RunListeners(n, cbs, calls, type, react) ==
  IF n = 0 THEN [callbacks |-> cbs, calls |-> calls]
  ELSE LET d == handleWindowMessage(cbs, type, react)
       IN  RunListeners(n - 1, d.callbacks, calls \o d.calls, type, react)

WindowMessage(type, react) ==
  /\ pending = <<>>
  /\ type # "mcp-message" => react = NoReaction
  /\ LET d == RunListeners(listeners, callbacks, <<>>, type, react)
     IN  /\ callbacks' = d.callbacks
         /\ lastOp' = Op("window", NoMessage, NoOut, d.calls, {})
  /\ UNCHANGED <<started, isTestMode, handles, storage, lastResponse, pending,
                 listeners, localStorage, posted>>

(***************************************************************************)
(* One step of a transport whose callers send the requests reqs and own    *)
(* the observers obs; with reacting, an observer may unsubscribe itself or *)
(* another observer while a dispatch runs.                                 *)
(***************************************************************************)
ReactionsOf(reacting) == IF reacting THEN Reactions(callbacks) ELSE {NoReaction}

Step(reqs, obs, reacting) ==
  \/ Start /\ UNCHANGED <<turn, outside>>
  \/ Stop /\ UNCHANGED <<turn, outside>>
  \/ Close /\ UNCHANGED <<turn, outside>>
  \/ \E c \in obs : OnMessage(c) /\ UNCHANGED <<turn, outside>>
  \/ \E c \in obs : Unsubscribe(c) /\ UNCHANGED <<turn, outside>>
  \/ \E message \in reqs, react \in ReactionsOf(reacting) : Send(message, react) /\ UNCHANGED <<turn, outside>>
  \/ \E react \in ReactionsOf(reacting) : ResumeSend(react) /\ UNCHANGED <<turn, outside>>
  \/ \E type \in EventTypes, react \in ReactionsOf(reacting) : WindowMessage(type, react) /\ UNCHANGED <<turn, outside>>

\* the router: every kind of request, one observer function that only listens
RouterRequests ==
  {m \in Requests :
     /\ m.params.params.value \in {Undef, Str("v1")}
     /\ m.params.params.operation = Str("divide") => m.params.params.b = Num(0)}

Next == Step(RouterRequests, {1}, FALSE)

Spec == Init /\ [][Next]_vars

\* the observers: every observer function, any of which may unsubscribe
\* during a dispatch; the requests that are enough to have Responses
ObserverRequests ==
  {JSONRPCMessage(1, "test", "test", NoParams),
   JSONRPCMessage(1, "tool", "storage-set", ToolParams(Undef, Undef, Undef, Str("k"), Str("v1"))),
   JSONRPCMessage(2, "resource", "storage-get", ToolParams(Undef, Undef, Undef, Str("k"), Undef))}

(***************************************************************************)
(* A send whose Response an observer answers with a send of its own:       *)
(* observer c, given the Response of a storage-set, calls                  *)
(* transport.send with a storage-get of the key that was set.  The inner   *)
(* send is a tool call: it runs to its end inside the callback, assigns    *)
(* lastResponse and runs its own forEach before the outer forEach goes on  *)
(* to the next observer.  An inner send that throws only rejects its       *)
(* promise.                                                                *)
(***************************************************************************)
\* the observers the outer forEach and the inner ones invoke, in order
RECURSIVE Interleave(_, _, _, _)
Interleave(cbs, k, c, inner) ==
  IF k > Len(cbs) THEN <<>>
  ELSE <<cbs[k]>> \o (IF cbs[k] = c THEN inner ELSE <<>>) \o Interleave(cbs, k + 1, c, inner)

\* the request observer c sends
GetOfKeySet(message) ==
  JSONRPCMessage(message.id, "tool", "storage-get",
                 ToolParams(Undef, Undef, Undef, message.params.params.key, Undef))

\* a storage-set whose write happens after the dispatch of its Response
SendFromObserverBeforeWrite(message, c) ==
  /\ ~NotConnected
  /\ message.method = "tool" /\ message.params.name = "storage-set"
  /\ c \in Range(callbacks)
  /\ LET h == handleToolMessage(message, storage)
         n == handleToolMessage(GetOfKeySet(message), storage)
         calls == Interleave(callbacks, 1, c, IF n.thrown THEN <<>> ELSE callbacks)
     IN  /\ ~h.thrown
         /\ storage' = h.storage
         /\ lastResponse' = IF n.thrown THEN h.value ELSE n.value
         /\ pending' = Overtaken(pending, calls)
         /\ lastOp' = Op("sendFromObserver", message, Resolved(h.value), calls, {})
  /\ UNCHANGED <<started, isTestMode, callbacks, handles, listeners, localStorage, posted>>

SendFromObserver(message, c) ==
  /\ ~NotConnected
  /\ message.method = "tool" /\ message.params.name = "storage-set"
  /\ c \in Range(callbacks)
  /\ LET h == handleToolMessage(message, storage)
         n == handleToolMessage(GetOfKeySet(message), h.storage)
         calls == Interleave(callbacks, 1, c, IF n.thrown THEN <<>> ELSE callbacks)
     IN  /\ ~h.thrown
         /\ storage' = h.storage
         /\ lastResponse' = IF n.thrown THEN h.value ELSE n.value
         /\ pending' = Overtaken(pending, calls)
         /\ lastOp' = Op("sendFromObserver", message, Resolved(h.value), calls, {})
  /\ UNCHANGED <<started, isTestMode, callbacks, handles, listeners, localStorage, posted>>

\* the storage-set requests an observer answers
ObservedRequests ==
  {JSONRPCMessage(1, "tool", "storage-set", ToolParams(Undef, Undef, Undef, k, v)) :
     k \in {Str("k"), Str("j")}, v \in {Str("v1"), Str("v2"), Str(""), Undef}}

NextFromObserver ==
  \/ Start /\ UNCHANGED <<turn, outside>>
  \/ Stop /\ UNCHANGED <<turn, outside>>
  \/ \E c \in Observers : OnMessage(c) /\ UNCHANGED <<turn, outside>>
  \/ \E message \in ObservedRequests : Send(message, NoReaction) /\ UNCHANGED <<turn, outside>>
  \/ \E message \in ObservedRequests, c \in Observers : SendFromObserver(message, c) /\ UNCHANGED <<turn, outside>>

SpecFromObserver == Init /\ [][NextFromObserver]_vars

NextObs == Step(ObserverRequests, Observers, TRUE)

SpecObs == Init /\ [][NextObs]_vars

(***************************************************************************)
(* The callback-only variant (browser-transport.ts lines 67-216): send      *)
(* returns nothing; the Response, or the error Response, goes to the        *)
(* callbacks.  Its start, stop, close and onMessage are the code of the     *)
(* variant above; it keeps its values in window.localStorage.               *)
(***************************************************************************)
\* window.postMessage calls whose event has not been delivered yet
MaxPosted == 1

\* the code every error Response of this variant carries
CbErrorCode == -32000

\* a request of this variant: tools read params.name and params.params,
\* resources read params.uri and params.key
CbMessage(id, method, name, params, uri, key) ==
  [jsonrpc |-> "2.0", id |-> id, method |-> method,
   params |-> [name |-> name, params |-> params, uri |-> uri, key |-> key]]

\* case 'calculate' of the variant: no check of the operands but b === 0
CbCalculate(message, store) ==
  LET operation == message.params.params.operation
      a == message.params.params.a
      b == message.params.params.b
  IN  IF operation = Str("add")
        THEN Return(<<[type |-> "text", text |-> ResultToString(Add(a, b))]>>, store)
      ELSE IF operation = Str("subtract")
        THEN Return(<<[type |-> "text", text |-> ResultToString(Subtract(a, b))]>>, store)
      ELSE IF operation = Str("multiply")
        THEN Return(<<[type |-> "text", text |-> ResultToString(Multiply(a, b))]>>, store)
      ELSE IF operation = Str("divide")
        THEN IF b = Num(0) THEN Throw("Division by zero", store)
             ELSE Return(<<[type |-> "text", text |-> ResultToString(Divide(a, b))]>>, store)
      ELSE Throw("Invalid operation", store)

\* case 'set-storage': localStorage.setItem(key, value)
CbSetStorage(message, store) ==
  LET key == ToStringJS(message.params.params.key)
      value == Str(ToStringJS(message.params.params.value))
  IN  Return(<<[type |-> "text", text |-> Str("Value stored successfully")]>>,
             [store EXCEPT ![key] = value])

CbHandleToolMessage(message, store) ==
  CASE message.params.name = "calculate" -> CbCalculate(message, store)
    [] message.params.name = "set-storage" -> CbSetStorage(message, store)
    [] OTHER -> Throw("Unknown tool: " \o message.params.name, store)

\* localStorage.getItem(key); if (!value) throw
CbHandleResourceMessage(message, store) ==
  LET value == store[ToStringJS(message.params.key)]
  IN  IF value = Null \/ ~Truthy(value) THEN Throw("Key not found", store)
      ELSE Return(<<[uri |-> message.params.uri, text |-> value]>>, store)

\* { jsonrpc, id, result }
CbResultResponse(message, result) ==
  [jsonrpc |-> "2.0", id |-> message.id, result |-> result, error |-> NoError]

\* the catch block of send: { jsonrpc, id, error: { code: -32000, message } }
CbErrorResponse(message, text) == ErrorResponse(message.id, CbErrorCode, text)

\* what the callbacks were given: a Response, or in test mode the request
Notified(response) == [kind |-> "notified", response |-> response, message |-> ""]
Echoed == [kind |-> "echoed", response |-> NoResponse, message |-> ""]

\* callbacks.forEach with a Response or an error Response
CbNotify(op, message, response, rest, react) ==
  LET d == ForEach(callbacks, react)
  IN  /\ callbacks' = d.callbacks
      /\ pending' = rest
      /\ lastOp' = Op(op, message, Notified(response), d.calls, {})
      /\ UNCHANGED <<started, isTestMode, handles, storage, lastResponse, listeners,
                     localStorage, posted>>

\* test mode: window.postMessage({type: "mcp-message", message}), then the
\* callbacks get the request itself
CbPassThrough(message, react) ==
  LET d == ForEach(callbacks, react)
  IN  /\ Len(posted) < MaxPosted
      /\ posted' = Append(posted, message)
      /\ callbacks' = d.callbacks
      /\ lastOp' = Op("send", message, Echoed, d.calls, {})
      /\ UNCHANGED <<started, isTestMode, handles, storage, lastResponse, pending,
                     listeners, localStorage>>

\* the handler has run to its end; send waits for its promise
CbSuspends(message, h) ==
  /\ Len(pending) < MaxPending
  /\ localStorage' = h.storage
  /\ pending' = Append(pending, [message |-> message, settled |-> Settled(h), sawLater |-> {}])
  /\ lastOp' = Op("send", message, Suspended, <<>>, {})
  /\ UNCHANGED <<started, isTestMode, callbacks, handles, storage, lastResponse,
                 listeners, posted>>

CbSend(message, react) ==
  IF ~started THEN
    react = NoReaction /\ SendRejects(message, "Transport not connected")
  ELSE IF isTestMode THEN
    CbPassThrough(message, react)
  ELSE IF message.method = "tool" THEN
    react = NoReaction /\ CbSuspends(message, CbHandleToolMessage(message, localStorage))
  ELSE IF message.method = "resource" THEN
    react = NoReaction /\ CbSuspends(message, CbHandleResourceMessage(message, localStorage))
  ELSE
    CbNotify("send", message,
             CbErrorResponse(message, "Unknown method: " \o message.method), pending, react)

\* the microtask that resumes the oldest suspended send: the Response, or
\* the catch block's error Response, goes to the callbacks
CbResumeSend(react) ==
  /\ pending # <<>>
  /\ LET head == pending[1]
     IN  CbNotify("resume", head.message,
                  IF head.settled.thrown
                    THEN CbErrorResponse(head.message, head.settled.message)
                    ELSE CbResultResponse(head.message, head.settled.value),
                  Tail(pending), react)

\* the 'message' event of a postMessage send made in test mode
CbWindowMessage(react) ==
  /\ pending = <<>>
  /\ posted # <<>>
  /\ LET d == RunListeners(listeners, callbacks, <<>>, "mcp-message", react)
     IN  /\ callbacks' = d.callbacks
         /\ lastOp' = Op("window", Head(posted), Echoed, d.calls, {})
  /\ posted' = Tail(posted)
  /\ UNCHANGED <<started, isTestMode, handles, storage, lastResponse, pending,
                 listeners, localStorage>>

CbRequests ==
  {CbMessage(i, "tool", "calculate", p, Undef, Undef) :
     i \in Ids, p \in {ToolParams(Str("add"), Num(2), Num(1), Undef, Undef),
                       ToolParams(Str("divide"), Num(2), Num(0), Undef, Undef),
                       ToolParams(Str("pow"), Num(2), Num(1), Undef, Undef)}}
  \cup {CbMessage(i, "tool", "set-storage",
                  ToolParams(Undef, Undef, Undef, Str("k"), Str("v1")), Undef, Undef) :
          i \in Ids}
  \cup {CbMessage(i, "tool", "nope", NoParams, Undef, Undef) : i \in Ids}
  \cup {CbMessage(i, "resource", "", NoParams, Str("storage://k"), k) :
          i \in Ids, k \in {Str("k"), Undef}}
  \cup {CbMessage(i, "bogus", "", NoParams, Undef, Undef) : i \in Ids}

NextCb ==
  \/ Start /\ UNCHANGED <<turn, outside>>
  \/ Stop /\ UNCHANGED <<turn, outside>>
  \/ Close /\ UNCHANGED <<turn, outside>>
  \/ \E c \in {1} : OnMessage(c) /\ UNCHANGED <<turn, outside>>
  \/ \E c \in {1} : Unsubscribe(c) /\ UNCHANGED <<turn, outside>>
  \/ \E message \in CbRequests : CbSend(message, NoReaction) /\ UNCHANGED <<turn, outside>>
  \/ CbResumeSend(NoReaction) /\ UNCHANGED <<turn, outside>>
  \/ CbWindowMessage(NoReaction) /\ UNCHANGED <<turn, outside>>
  \/ \E type \in EventTypes : WindowMessage(type, NoReaction) /\ UNCHANGED <<turn, outside>>

SpecCb == Init /\ [][NextCb]_vars

(***************************************************************************)
(* The calculator: a transport whose callers start it and send calculate   *)
(* requests, before and after the start, with every operation and operand  *)
(* of the input domain: negative numbers, zero, a numeric string and a      *)
(* missing operand.                                                         *)
(***************************************************************************)
CalculateOperations ==
  {Str("add"), Str("subtract"), Str("multiply"), Str("divide"), Str("pow")}

Numbers == {Num(-3), Num(0), Num(2)}

Operands == Numbers \cup {Str("5"), Undef}

CalculateRequests ==
  {JSONRPCMessage(1, "tool", "calculate", ToolParams(o, a, b, Undef, Undef)) :
     o \in CalculateOperations, a \in Operands, b \in Operands}

NextCalc ==
  \/ Start /\ UNCHANGED <<turn, outside>>
  \/ \E message \in CalculateRequests : Send(message, NoReaction) /\ UNCHANGED <<turn, outside>>

SpecCalc == Init /\ [][NextCalc]_vars

(***************************************************************************)
(* The store: a transport whose callers start it and send storage-set and  *)
(* storage-get requests (the tool and the resource form) with two keys, an *)
(* empty and a missing key, and two values and the empty string.           *)
(***************************************************************************)
StoreKeys == MapKeys \cup {Undef}

StoreValues == {Str("v1"), Str("v2"), Str("")}

StorageRequests ==
  {JSONRPCMessage(1, "tool", "storage-set", ToolParams(Undef, Undef, Undef, k, v)) :
     k \in StoreKeys, v \in StoreValues}
  \cup {JSONRPCMessage(1, m, "storage-get", ToolParams(Undef, Undef, Undef, k, Undef)) :
          m \in {"tool", "resource"}, k \in StoreKeys}

NextStore ==
  \/ Start /\ UNCHANGED <<turn, outside>>
  \/ \E message \in StorageRequests : Send(message, NoReaction) /\ UNCHANGED <<turn, outside>>
  \/ ResumeSend(NoReaction) /\ UNCHANGED <<turn, outside>>

SpecStore == Init /\ [][NextStore]_vars

(***************************************************************************)
(* The MCP server of server.ts: createServer() registers the tools and the *)
(* storage resource; their callbacks work on the Map that server.ts        *)
(* exports as storage (line 6), which is the variable storage in           *)
(* SpecServer.  A tool callback runs with arguments its schema accepts.    *)
(***************************************************************************)
\* z.string()
IsString(v) == v.t = "string"

\* storageSchema: z.object({ key: z.string(), value: z.string() })
storageSchema(params) == IsString(params.key) /\ IsString(params.value)

\* the schema of storage-get: z.object({ key: z.string() })
storageGetSchema(params) == IsString(params.key)

\* what a callback returns: { contents: [{ type: 'text', text }] }
Contents(text) ==
  [jsonrpc |-> "none", id |-> 0,
   result |-> <<[type |-> "text", text |-> text]>>,
   error |-> NoError]

Returned(text) == [kind |-> "returned", response |-> Contents(text), message |-> ""]

\* the arguments of a call of a server callback
ServerCall(name, params) == JSONRPCMessage(0, "server", name, params)

\* the storage-set tool
ServerStorageSet(params) ==
  /\ storageSchema(params)
  /\ storage' = MapSet(storage, params.key, params.value)
  /\ lastOp' = Op("callTool", ServerCall("storage-set", params),
                  Returned(Str("Value stored successfully")), <<>>, {})
  /\ UNCHANGED <<started, isTestMode, callbacks, handles, lastResponse, pending,
                 listeners, localStorage, posted>>

\* a storage-get tool that answers a missing key with a text
ServerStorageGetSentinel(params) ==
  /\ storageGetSchema(params)
  /\ LET value == MapGet(storage, params.key)
     IN  lastOp' = Op("callTool", ServerCall("storage-get", params),
                      IF ~Truthy(value) THEN Returned(Str("Key not found"))
                      ELSE Returned(value),
                      <<>>, {})
  /\ UNCHANGED <<started, isTestMode, callbacks, handles, storage, lastResponse,
                 pending, listeners, localStorage, posted>>

\* the storage-get tool: if (!value) throw new Error('Key not found')
ServerStorageGet(params) ==
  /\ storageGetSchema(params)
  /\ LET value == MapGet(storage, params.key)
     IN  lastOp' = Op("callTool", ServerCall("storage-get", params),
                      IF ~Truthy(value) THEN Rejected("Key not found") ELSE Returned(value),
                      <<>>, {})
  /\ UNCHANGED <<started, isTestMode, callbacks, handles, storage, lastResponse,
                 pending, listeners, localStorage, posted>>

\* a storage resource that throws for a key that holds no value
ServerReadResourceThrows(key) ==
  /\ lastOp' = Op("readResource",
                  ServerCall("storage", ToolParams(Undef, Undef, Undef, key, Undef)),
                  IF ~Truthy(key) THEN Rejected("Missing key parameter")
                  ELSE IF ~Truthy(MapGet(storage, key)) THEN Rejected("Key not found")
                  ELSE Returned(MapGet(storage, key)),
                  <<>>, {})
  /\ UNCHANGED <<started, isTestMode, callbacks, handles, storage, lastResponse,
                 pending, listeners, localStorage, posted>>

\* the storage resource: key = extra.variables?.key
ServerReadResource(key) ==
  /\ lastOp' = Op("readResource",
                  ServerCall("storage", ToolParams(Undef, Undef, Undef, key, Undef)),
                  IF ~Truthy(key) THEN Rejected("Missing key parameter")
                  ELSE IF ~Truthy(MapGet(storage, key)) THEN Returned(Str("Key not found"))
                  ELSE Returned(MapGet(storage, key)),
                  <<>>, {})
  /\ UNCHANGED <<started, isTestMode, callbacks, handles, storage, lastResponse,
                 pending, listeners, localStorage, posted>>

ServerParams ==
  {ToolParams(Undef, Undef, Undef, k, v) : k \in StoreKeys, v \in StoreValues \cup {Undef}}

NextServer ==
  \/ \E params \in ServerParams : ServerStorageSet(params) /\ UNCHANGED <<turn, outside>>
  \/ \E params \in {p \in ServerParams : p.value = Undef} : ServerStorageGet(params) /\ UNCHANGED <<turn, outside>>
  \/ \E key \in StoreKeys : ServerReadResource(key) /\ UNCHANGED <<turn, outside>>

SpecServer == Init /\ [][NextServer]_vars

(***************************************************************************)
(* Callers.  A caller runs 'await transport.send(message)' and then reads  *)
(* getLastResponse().  send runs at once up to its first await; what is    *)
(* left to do is a microtask: the rest of a send that waits for            *)
(* handleResourceMessage, or the rest of a caller whose send has settled.  *)
(* Microtasks run in the order in which they were queued.  A caller whose  *)
(* send rejects goes to its catch block and reads nothing.                 *)
(***************************************************************************)
MaxJobs == 3

\* what getLastResponse() returns
getLastResponse == lastResponse

ResumeJob == [kind |-> "resume", message |-> NoMessage]
ReadJob(message) == [kind |-> "read", message |-> message]

\* await transport.send(message), up to the point where the caller waits
CallerSend(message) ==
  /\ Len(jobs) < MaxJobs
  /\ Send(message, NoReaction)
  /\ jobs' = IF lastOp'.out.kind = "suspended" THEN Append(jobs, ResumeJob)
             ELSE IF lastOp'.out.kind = "resolved" THEN Append(jobs, ReadJob(message))
             ELSE jobs
  /\ UNCHANGED <<turn, now, servers, upstream>>

\* the microtask at the head of the queue runs
RunJob ==
  /\ jobs # <<>>
  /\ IF jobs[1].kind = "resume" THEN
       /\ ResumeSend(NoReaction)
       /\ jobs' = IF lastOp'.out.kind = "resolved"
                  THEN Append(Tail(jobs), ReadJob(pending[1].message))
                  ELSE Tail(jobs)
     ELSE
       /\ jobs' = Tail(jobs)
       /\ lastOp' = Op("read", jobs[1].message, Resolved(getLastResponse), <<>>, {})
       /\ UNCHANGED <<started, isTestMode, callbacks, handles, storage,
                      lastResponse, pending, listeners, localStorage, posted>>
  /\ UNCHANGED <<turn, now, servers, upstream>>

\* one caller reads a key as a resource, the others call storage tools
CallerRequests ==
  {JSONRPCMessage(1, "resource", "storage-get", ToolParams(Undef, Undef, Undef, Str("k"), Undef)),
   JSONRPCMessage(2, "tool", "storage-get", ToolParams(Undef, Undef, Undef, Str("k"), Undef))}
  \cup {JSONRPCMessage(2, "tool", "storage-set", ToolParams(Undef, Undef, Undef, Str("k"), v)) :
          v \in ValueInputs}

NextCallers ==
  \/ Start /\ UNCHANGED <<turn, outside>>
  \/ \E message \in CallerRequests : CallerSend(message)
  \/ RunJob

SpecCallers == Init /\ [][NextCallers]_vars

(***************************************************************************)
(* The servers createServer() returns.  Each call builds a new McpServer   *)
(* and registers handlers that close over the one Map 'storage' of the     *)
(* module.  servers.made[s] keeps what was stored through the handlers of  *)
(* server s, servers.called the server whose handler ran last.  The server *)
(* of mcp-server.ts has a tavily-search tool as well, which asks the       *)
(* search service; 'upstream' is "up" or the message the service fails     *)
(* with.                                                                   *)
(***************************************************************************)
MaxServers == 2

InstanceKeys == {Str("k"), Str("")}
InstanceValues == {Str("v1"), Str("v2")}

\* createServer(): 'storage' is not created here, it is the module's
CreateServer ==
  /\ Len(servers.made) < MaxServers
  /\ servers' = [servers EXCEPT !.made = Append(@, [k \in MapKeys |-> Absent])]
  /\ lastOp' = Plain("createServer")
  /\ UNCHANGED <<started, isTestMode, callbacks, handles, storage, lastResponse,
                 pending, listeners, localStorage, posted, turn, now, jobs,
                 upstream>>

\* the storage-set handler of server s
InstanceStorageSet(s, params) ==
  /\ ServerStorageSet(params)
  /\ servers' = [made |-> [servers.made EXCEPT ![s] = MapSet(@, params.key, params.value)],
                 called |-> s]
  /\ UNCHANGED <<turn, now, jobs, upstream>>

\* the storage-get handler of server s
InstanceStorageGet(s, params) ==
  /\ ServerStorageGet(params)
  /\ servers' = [servers EXCEPT !.called = s]
  /\ UNCHANGED <<turn, now, jobs, upstream>>

\* the storage resource of server s
InstanceReadResource(s, key) ==
  /\ ServerReadResource(key)
  /\ servers' = [servers EXCEPT !.called = s]
  /\ UNCHANGED <<turn, now, jobs, upstream>>

UpstreamErrors == {"Request failed", "Unauthorized"}

QueryInputs == {"q1", "q2"}

\* JSON.stringify of what TavilyService.search returns
SearchResults(query) == "{\"query\":\"" \o query \o "\",\"results\":[]}"

\* the tavily-search handler of server s: try { results = await
\* tavilyService.search(params); return { content: [text JSON.stringify(results)] } }
\* catch (error) { return { content: [text `Error performing search: ...`] } }
InstanceTavilySearch(s, query) ==
  /\ servers' = [servers EXCEPT !.called = s]
  /\ lastOp' = Op("callTool", ServerCall("tavily-search", [query |-> Str(query)]),
                  IF upstream = "up" THEN Returned(Str(SearchResults(query)))
                  ELSE Returned(Str("Error performing search: " \o upstream)),
                  <<>>, {})
  /\ UNCHANGED <<started, isTestMode, callbacks, handles, storage, lastResponse,
                 pending, listeners, localStorage, posted, turn, now, jobs,
                 upstream>>

\* the search service fails, with one message or another, or recovers
UpstreamChanges(to) ==
  /\ to # upstream
  /\ upstream' = to
  /\ lastOp' = Plain("upstream")
  /\ UNCHANGED <<started, isTestMode, callbacks, handles, storage, lastResponse,
                 pending, listeners, localStorage, posted, turn, now, jobs,
                 servers>>

InstanceParams ==
  {ToolParams(Undef, Undef, Undef, k, v) : k \in InstanceKeys, v \in InstanceValues}

NextInstances ==
  \/ CreateServer
  \/ \E s \in 1..Len(servers.made) : \E params \in InstanceParams :
       InstanceStorageSet(s, params)
  \/ \E s \in 1..Len(servers.made) : \E key \in InstanceKeys :
       InstanceStorageGet(s, ToolParams(Undef, Undef, Undef, key, Undef))
  \/ \E s \in 1..Len(servers.made) : \E key \in InstanceKeys :
       InstanceReadResource(s, key)
  \/ \E s \in 1..Len(servers.made) : \E query \in QueryInputs :
       InstanceTavilySearch(s, query)
  \/ \E to \in {"up"} \cup UpstreamErrors : UpstreamChanges(to)

SpecInstances == Init /\ [][NextInstances]_vars

(***************************************************************************)
(* The window 'message' listener of main.ts.  It answers an event of type  *)
(* 'mcp-tool-request' with window.postMessage({ type: 'mcp-tool-response', *)
(* id, response }) and returns at once for every other type.  It keeps     *)
(* values in window.localStorage.  For tavily-search it waits for the      *)
(* search and posts when the search has settled; 'pending' holds the       *)
(* searches that have not, 'posted' what was posted and whose 'message'    *)
(* event, which this listener receives as well, is still to come.          *)
(***************************************************************************)
\* event.data: { type, id, message }
MainEvent(type, id, message) == [type |-> type, id |-> id, message |-> message]

\* window.postMessage({ type: 'mcp-tool-response', id, response }, '*')
MainResponse(id, response) ==
  [type |-> "mcp-tool-response", id |-> id, response |-> response]

\* case 'calculate'
MainCalculate(message, store) ==
  LET operation == message.params.params.operation
      a == message.params.params.a
      b == message.params.params.b
  IN  IF operation = Str("add")
        THEN Return(ResultResponse(message.id, ResultToString(Add(a, b))), store)
      ELSE IF operation = Str("subtract")
        THEN Return(ResultResponse(message.id, ResultToString(Subtract(a, b))), store)
      ELSE IF operation = Str("multiply")
        THEN Return(ResultResponse(message.id, ResultToString(Multiply(a, b))), store)
      ELSE IF operation = Str("divide")
        THEN IF b = Num(0) THEN Throw("Division by zero", store)
             ELSE Return(ResultResponse(message.id, ResultToString(Divide(a, b))), store)
      ELSE Throw("Unknown operation: " \o ToStringJS(operation), store)

\* case 'storage-set'
MainStorageSet(message, store) ==
  LET key == message.params.params.key
      value == message.params.params.value
  IN  IF ~Truthy(key) THEN Throw("Key is required", store)
      ELSE Return(ResultResponse(message.id,
                    Str("Value stored successfully at key: " \o ToStringJS(key))),
                  [store EXCEPT ![ToStringJS(key)] = Str(ToStringJS(value))])

\* case 'storage-get'
MainStorageGet(message, store) ==
  LET key == message.params.params.key
  IN  IF ~Truthy(key) THEN Throw("Key is required", store)
      ELSE IF store[ToStringJS(key)] = Null
        THEN Throw("Key not found: " \o ToStringJS(key), store)
      ELSE Return(ResultResponse(message.id, store[ToStringJS(key)]), store)

\* switch (toolName)
MainTool(message, store) ==
  CASE message.params.name = "calculate" -> MainCalculate(message, store)
    [] message.params.name = "storage-set" -> MainStorageSet(message, store)
    [] message.params.name = "storage-get" -> MainStorageGet(message, store)
    [] OTHER -> Throw("Unknown tool: " \o message.params.name, store)

\* an outer catch block that takes both ids from the event
MainCatchEventId(event, text) ==
  MainResponse(event.id, ErrorResponse(event.id, CbErrorCode, text))

\* the outer catch block: id: event.data.id, response: { jsonrpc,
\* id: event.data.message.id, error: { code: -32000, message } }
MainCatch(event, text) ==
  MainResponse(event.id, ErrorResponse(event.message.id, CbErrorCode, text))

\* what the listener did with an event
Posted(response) == [kind |-> "posted", response |-> response, message |-> ""]

\* the listener, from the event to its return or to its await of the search
MainWindowMessage(event) ==
  IF event.type # "mcp-tool-request" THEN
    /\ lastOp' = Op("event", NoMessage, NoOut, <<>>, {})
    /\ UNCHANGED <<started, isTestMode, callbacks, handles, storage, lastResponse,
                   pending, listeners, localStorage, posted>>
  ELSE IF event.message = Undef THEN
    \* message.params throws, and so does event.data.message.id in the catch block
    /\ lastOp' = Op("request", NoMessage, Rejected("TypeError"), <<>>, {})
    /\ UNCHANGED <<started, isTestMode, callbacks, handles, storage, lastResponse,
                   pending, listeners, localStorage, posted>>
  ELSE IF event.message.params.name = "tavily-search" THEN
    /\ Len(pending) < MaxPending
    /\ pending' = Append(pending, event)
    /\ lastOp' = Op("request", event.message, Suspended, <<>>, {})
    /\ UNCHANGED <<started, isTestMode, callbacks, handles, storage, lastResponse,
                   listeners, localStorage, posted>>
  ELSE
    LET h == MainTool(event.message, localStorage)
        response == IF h.thrown THEN MainCatch(event, h.message)
                    ELSE MainResponse(event.message.id, h.value)
    IN  /\ Len(posted) < MaxPosted
        /\ posted' = Append(posted, response)
        /\ localStorage' = h.storage
        /\ lastOp' = Op("request", event.message, Posted(response.response), <<>>, {})
        /\ UNCHANGED <<started, isTestMode, callbacks, handles, storage, lastResponse,
                       pending, listeners>>

\* JSON.stringify({ answer: results.answer, query: results.query })
SearchAnswer(query) == "{\"answer\":\"an answer\",\"query\":\"" \o query \o "\"}"

\* the search of the oldest waiting request has settled: the listener posts
\* the answer, or in its inner catch block { jsonrpc, id, error: { message } }
MainSearchSettles ==
  /\ pending # <<>>
  /\ Len(posted) < MaxPosted
  /\ LET message == pending[1].message
         response ==
           IF upstream = "up"
           THEN ResultResponse(message.id,
                               Str(SearchAnswer(ToStringJS(message.params.params.query))))
           ELSE ErrorResponse(message.id, 0, upstream)
     IN  /\ posted' = Append(posted, MainResponse(message.id, response))
         /\ lastOp' = Op("settle", message, Posted(response), <<>>, {})
  /\ pending' = Tail(pending)
  /\ UNCHANGED <<started, isTestMode, callbacks, handles, storage, lastResponse,
                 listeners, localStorage>>

\* the 'message' event of a posted response arrives at the listener, which
\* returns at once: its type is not 'mcp-tool-request'
MainResponseArrives ==
  /\ posted # <<>>
  /\ Head(posted).type # "mcp-tool-request"
  /\ posted' = Tail(posted)
  /\ lastOp' = Op("event", NoMessage, NoOut, <<>>, {})
  /\ UNCHANGED <<started, isTestMode, callbacks, handles, storage, lastResponse,
                 pending, listeners, localStorage>>

MainRequests ==
  {JSONRPCMessage(i, "tool", "calculate", ToolParams(Str(o), Num(2), b, Undef, Undef)) :
     i \in Ids, o \in {"add", "divide", "pow"}, b \in {Num(3), Num(0)}}
  \cup {JSONRPCMessage(i, "tool", "storage-set", ToolParams(Undef, Undef, Undef, k, Str("v1"))) :
          i \in Ids, k \in {Str("k"), Str("")}}
  \cup {JSONRPCMessage(i, "tool", "storage-get", ToolParams(Undef, Undef, Undef, k, Undef)) :
          i \in Ids, k \in {Str("k"), Str("")}}
  \cup {JSONRPCMessage(i, "tool", "nope", NoParams) : i \in Ids}
  \cup {JSONRPCMessage(i, "tool", "tavily-search", [query |-> Str("q1")]) : i \in Ids}

\* the events the window receives from elsewhere; event.data.id need not be
\* the id of the message
MainEvents ==
  {MainEvent("mcp-tool-request", 1, m) : m \in MainRequests \cup {Undef}}
  \cup {MainEvent("mcp-message", 1, m) : m \in {Undef, JSONRPCMessage(1, "tool", "nope", NoParams)}}

NextMain ==
  \/ \E event \in MainEvents : MainWindowMessage(event) /\ UNCHANGED <<turn, outside>>
  \/ MainSearchSettles /\ UNCHANGED <<turn, outside>>
  \/ MainResponseArrives /\ UNCHANGED <<turn, outside>>
  \/ \E to \in {"up"} \cup UpstreamErrors : UpstreamChanges(to)

SpecMain == Init /\ [][NextMain]_vars

(***************************************************************************)
(* The text of the model.  A text is a sequence of strings: the four tags, *)
(* white space, and pieces that hold no tag (a tool name, a JSON text,     *)
(* prose).  A regular expression sees a tag only as a whole, so a piece    *)
(* stands for any run of characters that completes no tag.                 *)
(***************************************************************************)
ToolOpen == "<tool>"
ToolClose == "</tool>"
ParamsOpen == "<params>"
ParamsClose == "</params>"
Space == " "

\* the JSON texts of the model: the parameters of a storage-set, of a
\* storage-get and of a division by zero, and a text JSON.parse rejects
JsonSet == "{\"key\":\"k\",\"value\":\"v1\"}"
JsonGet == "{\"key\":\"k\"}"
JsonDivide == "{\"operation\":\"divide\",\"a\":2,\"b\":0}"
JsonBad == "{\"key\":"

JsonTexts == {JsonSet, JsonGet, JsonDivide}

\* String.prototype.trim on a text
RECURSIVE TrimStart(_)
TrimStart(s) == IF s # <<>> /\ Head(s) = Space THEN TrimStart(Tail(s)) ELSE s

RECURSIVE TrimEnd(_)
TrimEnd(s) ==
  IF s # <<>> /\ s[Len(s)] = Space THEN TrimEnd(SubSeq(s, 1, Len(s) - 1)) ELSE s

Trim(s) == TrimEnd(TrimStart(s))

\* JSON.parse: white space around one JSON text is allowed, anything else throws
JSONParse(s) ==
  IF Len(Trim(s)) = 1 /\ Trim(s)[1] \in JsonTexts
  THEN [thrown |-> FALSE, value |-> Trim(s)[1]]
  ELSE [thrown |-> TRUE, value |-> ""]

\* text.slice(index), index counted from 0
Slice(text, index) == SubSeq(text, index + 1, Len(text))

\* String.prototype.includes
Includes(text, piece) == \E i \in 1..Len(text) : text[i] = piece

\* the place where \s* stops
RECURSIVE SkipSpace(_, _)
SkipSpace(text, i) ==
  IF i <= Len(text) /\ text[i] = Space THEN SkipSpace(text, i + 1) ELSE i

\* /<tool>(.*?)<\/tool>\s*<params>(.*?)<\/params>/gs tried at place i: the
\* first group is lazy and the dot matches everything, so it ends at the
\* first </tool> that white space and <params> follow, with a </params>
\* somewhere after; the second group ends at the first </params>
Closers(text, i) ==
  {j \in (i + 1)..Len(text) :
     /\ text[j] = ToolClose
     /\ LET k == SkipSpace(text, j + 1)
        IN  /\ k <= Len(text)
            /\ text[k] = ParamsOpen
            /\ \E m \in (k + 1)..Len(text) : text[m] = ParamsClose}

\* the element of a set of one element: a value computed once and named
Only(S) == CHOOSE x \in S : TRUE

Min(S) == CHOOSE x \in S : \A y \in S : x <= y

NoMatch == [found |-> FALSE, name |-> <<>>, params |-> <<>>, lastIndex |-> 0]

\* toolRegex.exec(text) with toolRegex.lastIndex = lastIndex (counted from 0)
toolRegexExec(text, lastIndex) ==
  Only({IF starts = {} THEN NoMatch
        ELSE LET i == Min(starts)
                 j == Min(Closers(text, i))
                 k == SkipSpace(text, j + 1)
                 m == Min({n \in (k + 1)..Len(text) : text[n] = ParamsClose})
             IN  [found |-> TRUE,
                  name |-> SubSeq(text, i + 1, j - 1),
                  params |-> SubSeq(text, k + 1, m - 1),
                  lastIndex |-> m] :
        starts \in {{i \in (lastIndex + 1)..Len(text) :
                       text[i] = ToolOpen /\ Closers(text, i) # {}}}})

\* a tool call: { name, params }
ToolCall(name, params) == [name |-> name, params |-> params]

\* the while loop of parseToolCalls: a match whose JSON.parse throws is
\* logged and the loop goes on after it
RECURSIVE parseFrom(_, _, _)
parseFrom(text, lastIndex, toolCalls) ==
  Only({IF ~match.found THEN [thrown |-> FALSE, value |-> toolCalls]
        ELSE IF JSONParse(match.params).thrown
        THEN parseFrom(text, match.lastIndex, toolCalls)
        ELSE parseFrom(text, match.lastIndex,
                       Append(toolCalls, ToolCall(Trim(match.name),
                                                  JSONParse(match.params).value))) :
        match \in {toolRegexExec(text, lastIndex)}})

parseToolCalls(text) == Only({parseFrom(t, 0, <<>>) : t \in {text}})

(***************************************************************************)
(* The texts the model writes: up to MaxSegments segments, each of them    *)
(* prose, a directive, a directive with white space around its name and    *)
(* between its blocks, a directive whose JSON is malformed, a tool block   *)
(* with no params block, or a directive whose params block is not closed.  *)
(***************************************************************************)
MaxSegments == 3

Directive(name, json) == <<ToolOpen, name, ToolClose, ParamsOpen, json, ParamsClose>>

SpacedDirective(name, json) ==
  <<ToolOpen, Space, name, Space, ToolClose, Space, ParamsOpen, json, ParamsClose>>

Segments ==
  {<<"prose">>,
   Directive("storage-set", JsonSet),
   SpacedDirective("storage-get", JsonGet),
   Directive("calculate", JsonBad),
   <<ToolOpen, "calculate", ToolClose>>,
   <<ToolOpen, "calculate", ToolClose, ParamsOpen, JsonBad>>}

RECURSIVE Flatten(_)
Flatten(segments) ==
  IF segments = <<>> THEN <<>> ELSE Head(segments) \o Flatten(Tail(segments))

TextsOf(segments, n) ==
  {Flatten(s) : s \in UNION {[1..len -> segments] : len \in 0..n}}

Texts == TextsOf(Segments, MaxSegments)

\* a caller applies parseToolCalls to a text
ParseToolCalls(text) ==
  /\ turn' = [turn EXCEPT !.text = text]
  /\ lastOp' = Op("parseToolCalls", NoMessage,
                  [kind |-> IF parseToolCalls(text).thrown THEN "rejected" ELSE "returned",
                   response |-> parseToolCalls(text).value, message |-> ""],
                  <<>>, {})
  /\ UNCHANGED <<started, isTestMode, callbacks, handles, storage, lastResponse,
                 pending, listeners, localStorage, posted>>

NextParse == \E text \in Texts : ParseToolCalls(text) /\ UNCHANGED outside

SpecParse == Init /\ [][NextParse]_vars

(***************************************************************************)
(* The streaming LLMHandler (part_005).  processUserInput runs from one    *)
(* await to the next: the call itself up to the engine's stream, then one  *)
(* step for every chunk, one for every tool call of executeToolCalls, and  *)
(* one for the end of the stream.  Other callers can start and stop the    *)
(* transport while processUserInput waits for the engine; the tool calls   *)
(* of one executeToolCalls follow each other in microtasks.                *)
(***************************************************************************)
\* the params object JSON.parse makes of a JSON text
ParamsOf(json) ==
  CASE json = JsonSet -> ToolParams(Undef, Undef, Undef, Str("k"), Str("v1"))
    [] json = JsonGet -> ToolParams(Undef, Undef, Undef, Str("k"), Undef)
    [] json = JsonDivide -> ToolParams(Str("divide"), Num(2), Num(0), Undef, Undef)

\* a text as one string
RECURSIVE Join(_)
Join(s) == IF s = <<>> THEN "" ELSE Head(s) \o Join(Tail(s))

\* the request handleToolCall sends: { jsonrpc, method: 'tool', id: Date.now(),
\* params: { name, params } }
ToolRequest(call) == JSONRPCMessage(now, "tool", Join(call.name), ParamsOf(call.params))

\* handleToolCall after 'await this.transport.send(...)': op is what send did,
\* response what getLastResponse() returns
handleToolCall(op, response) ==
  IF op.out.kind = "rejected" THEN [thrown |-> TRUE, value |-> op.out.message]
  ELSE IF response = NoResponse
  THEN [thrown |-> TRUE, value |-> "No response received from tool"]
  ELSE IF response.error # NoError THEN [thrown |-> TRUE, value |-> response.error.message]
  ELSE IF response.result = <<>> \/ ~Truthy(response.result[1].text)
  THEN [thrown |-> TRUE, value |-> "Invalid response format from tool"]
  ELSE [thrown |-> FALSE, value |-> ToStringJS(response.result[1].text)]

\* what executeToolCalls pushes for one call
ResultText(call, h) ==
  IF h.thrown THEN "Tool " \o Join(call.name) \o " failed: Error: " \o h.value
  ELSE "Tool " \o Join(call.name) \o " returned: " \o h.value

AssistantMessage(content) == [role |-> "assistant", content |-> content]

UserMessage == [role |-> "user", content |-> <<"userInput">>]

\* for (const result of toolResults) this.messages.push(...)
RECURSIVE PushResults(_, _)
PushResults(messages, results) ==
  IF results = <<>> THEN messages
  ELSE PushResults(Append(messages, AssistantMessage(<<Head(results)>>)), Tail(results))

\* finalResponse += '\n' + result, for every result
RECURSIVE WithResults(_, _)
WithResults(finalResponse, results) ==
  IF results = <<>> THEN finalResponse
  ELSE WithResults(finalResponse \o <<"\n", Head(results)>>, Tail(results))

\* this.engine = await CreateMLCEngine(...)
Initialize ==
  /\ turn.phase = "idle"
  /\ ~turn.engine
  /\ turn' = [turn EXCEPT !.engine = TRUE]
  /\ lastOp' = Plain("initialize")
  /\ UNCHANGED <<started, isTestMode, callbacks, handles, storage, lastResponse,
                 pending, listeners, localStorage, posted>>

\* a processUserInput that does not look at this.engine
ProcessUserInputUnchecked(text) ==
  /\ turn.phase = "idle"
  /\ turn' = [turn EXCEPT !.phase = "streaming", !.text = text, !.rest = text,
                          !.messages = Append(@, UserMessage),
                          !.currentResponse = <<>>, !.lastToolCallIndex = 0]
  /\ lastOp' = Plain("processUserInput")
  /\ UNCHANGED <<started, isTestMode, callbacks, handles, storage, lastResponse,
                 pending, listeners, localStorage, posted>>

\* processUserInput(userInput) up to its first await; text is what the
\* engine is going to write
ProcessUserInput(text) ==
  /\ turn.phase = "idle"
  /\ turn' = IF ~turn.engine
             THEN [turn EXCEPT !.phase = "done", !.outcome = "rejected",
                               !.error = "Model not initialized"]
             ELSE [turn EXCEPT !.phase = "streaming", !.text = text, !.rest = text,
                               !.messages = Append(@, UserMessage),
                               !.currentResponse = <<>>, !.lastToolCallIndex = 0]
  /\ lastOp' = Plain("processUserInput")
  /\ UNCHANGED <<started, isTestMode, callbacks, handles, storage, lastResponse,
                 pending, listeners, localStorage, posted>>

\* the loop body for a chunk of n pieces, up to 'await this.executeToolCalls'
NextChunk(n) ==
  /\ turn.phase = "streaming"
  /\ n \in 1..Len(turn.rest)
  /\ LET currentResponse == turn.currentResponse \o SubSeq(turn.rest, 1, n)
         toolCalls ==
           IF Includes(currentResponse, ToolClose) /\ Includes(currentResponse, ParamsClose)
           THEN parseToolCalls(Slice(currentResponse, turn.lastToolCallIndex)).value
           ELSE <<>>
     IN  turn' = [turn EXCEPT !.currentResponse = currentResponse,
                              !.rest = Slice(turn.rest, n),
                              !.queue = toolCalls,
                              !.results = <<>>,
                              !.phase = IF toolCalls = <<>> THEN "streaming" ELSE "executing"]
  /\ lastOp' = Plain("chunk")
  /\ UNCHANGED <<started, isTestMode, callbacks, handles, storage, lastResponse,
                 pending, listeners, localStorage, posted>>

\* messages.push(finalResponse); return finalResponse
Answer(handler, messages, finalResponse) ==
  [handler EXCEPT !.phase = "done", !.outcome = "returned", !.answer = finalResponse,
                  !.messages = Append(messages, AssistantMessage(finalResponse)),
                  !.queue = <<>>, !.results = <<>>]

\* a processUserInput that stays in its loop once the stream has ended
EndOfStreamWaits ==
  /\ turn.phase = "streaming"
  /\ turn.rest = <<>>
  /\ UNCHANGED vars

\* the stream has ended: the remaining tool calls of finalResponse
EndOfStream ==
  /\ turn.phase = "streaming"
  /\ turn.rest = <<>>
  /\ LET finalResponse == turn.currentResponse
         remainingToolCalls ==
           IF Includes(finalResponse, ToolClose) /\ Includes(finalResponse, ParamsClose)
           THEN parseToolCalls(Slice(finalResponse, turn.lastToolCallIndex)).value
           ELSE <<>>
     IN  turn' = IF remainingToolCalls = <<>>
                 THEN Answer(turn, turn.messages, finalResponse)
                 ELSE [turn EXCEPT !.queue = remainingToolCalls, !.results = <<>>,
                                   !.phase = "remaining"]
  /\ lastOp' = Plain("endOfStream")
  /\ UNCHANGED <<started, isTestMode, callbacks, handles, storage, lastResponse,
                 pending, listeners, localStorage, posted>>

\* an executeToolCalls with no catch: a handleToolCall that throws ends the
\* loop and processUserInput rethrows
ExecuteToolCallUncaught ==
  /\ turn.phase \in {"executing", "remaining"}
  /\ turn.queue # <<>>
  /\ LET call == Head(turn.queue)
     IN  /\ Send(ToolRequest(call), NoReaction)
         /\ LET h == handleToolCall(lastOp', lastResponse')
                results == Append(turn.results, ResultText(call, h))
                sent == Append(turn.sent, ToolRequest(call))
            IN  turn' =
                  IF h.thrown
                  THEN [turn EXCEPT !.queue = <<>>, !.results = <<>>, !.sent = sent,
                                    !.phase = "done", !.outcome = "rejected",
                                    !.error = h.value]
                  ELSE IF Tail(turn.queue) # <<>>
                  THEN [turn EXCEPT !.queue = Tail(@), !.results = results, !.sent = sent]
                  ELSE IF turn.phase = "executing"
                  THEN [turn EXCEPT !.queue = <<>>, !.results = <<>>, !.sent = sent,
                                    !.messages = PushResults(@, results),
                                    !.lastToolCallIndex = Len(turn.currentResponse),
                                    !.phase = "streaming"]
                  ELSE Answer([turn EXCEPT !.sent = sent],
                              PushResults(turn.messages, results),
                              WithResults(turn.currentResponse, results))

\* one round of the loop of executeToolCalls: handleToolCall sends the
\* request and reads getLastResponse(); after the last call the results go
\* to the history and processUserInput goes on
ExecuteToolCall ==
  /\ turn.phase \in {"executing", "remaining"}
  /\ turn.queue # <<>>
  /\ LET call == Head(turn.queue)
     IN  /\ Send(ToolRequest(call), NoReaction)
         /\ LET results == Append(turn.results,
                                  ResultText(call, handleToolCall(lastOp', lastResponse')))
                sent == Append(turn.sent, ToolRequest(call))
            IN  turn' =
                  IF Tail(turn.queue) # <<>>
                  THEN [turn EXCEPT !.queue = Tail(@), !.results = results, !.sent = sent]
                  ELSE IF turn.phase = "executing"
                  THEN [turn EXCEPT !.queue = <<>>, !.results = <<>>, !.sent = sent,
                                    !.messages = PushResults(@, results),
                                    !.lastToolCallIndex = Len(turn.currentResponse),
                                    !.phase = "streaming"]
                  ELSE Answer([turn EXCEPT !.sent = sent],
                              PushResults(turn.messages, results),
                              WithResults(turn.currentResponse, results))

\* what the engine writes in a turn
MaxTurnSegments == 3

TurnSegments ==
  {<<"prose">>,
   Directive("storage-set", JsonSet),
   SpacedDirective("storage-get", JsonGet),
   Directive("calculate", JsonDivide),
   Directive("calculate", JsonBad)}

TurnTexts == TextsOf(TurnSegments, MaxTurnSegments)

\* the engine delivers chunks of up to MaxChunk pieces, or all the rest at once
MaxChunk == 2

ChunkSizes == (1..MaxChunk) \cup {Len(turn.rest)}

NextTurn ==
  \/ turn.phase \in {"idle", "streaming"} /\ Start /\ UNCHANGED <<turn, outside>>
  \/ turn.phase \in {"idle", "streaming"} /\ started /\ Stop /\ UNCHANGED <<turn, outside>>
  \/ Initialize /\ UNCHANGED outside
  \/ \E text \in TurnTexts : ProcessUserInput(text) /\ UNCHANGED outside
  \/ \E n \in ChunkSizes : NextChunk(n) /\ UNCHANGED outside
  \/ EndOfStream /\ UNCHANGED outside
  \/ ExecuteToolCall /\ UNCHANGED outside

SpecTurn == Init /\ [][NextTurn]_vars

\* The engine writes a finite text and goes on writing until its end, and
\* every send settles: the step of the turn that is enabled is taken.
TurnProgress ==
  \/ \E n \in ChunkSizes : NextChunk(n) /\ UNCHANGED outside
  \/ EndOfStream /\ UNCHANGED outside
  \/ ExecuteToolCall /\ UNCHANGED outside

FairTurn == SpecTurn /\ WF_vars(TurnProgress)

(***************************************************************************)
(* The clock.  Date.now() counts milliseconds; a turn's requests take      *)
(* their ids from it, and it advances on its own, between any two steps or *)
(* between none.                                                           *)
(***************************************************************************)
MaxNow == 3

Tick ==
  /\ now < MaxNow
  /\ now' = now + 1
  /\ lastOp' = Plain("tick")
  /\ UNCHANGED <<started, isTestMode, callbacks, handles, storage, lastResponse,
                 pending, listeners, localStorage, posted, turn, jobs, servers,
                 upstream>>

ClockTexts ==
  TextsOf({<<"Done">>,
           Directive("storage-set", JsonSet),
           SpacedDirective("storage-get", JsonGet)}, 2)

NextClock ==
  \/ turn.phase = "idle" /\ Start /\ UNCHANGED <<turn, outside>>
  \/ Initialize /\ UNCHANGED outside
  \/ \E text \in ClockTexts : ProcessUserInput(text) /\ UNCHANGED outside
  \/ \E n \in ChunkSizes : NextChunk(n) /\ UNCHANGED outside
  \/ EndOfStream /\ UNCHANGED outside
  \/ ExecuteToolCall /\ UNCHANGED outside
  \/ Tick

SpecClock == Init /\ [][NextClock]_vars

(***************************************************************************)
(* The LLMHandler of llm.ts.  processUserInput(input, onProgress) asks the *)
(* engine for one complete response, looks for the first directive in it,  *)
(* sends its request and gives onProgress one text; it catches what is     *)
(* thrown and always returns.  It runs from its call to                    *)
(* 'await this.engine.chatCompletion', and from the engine's answer to its *)
(* end, the tool request being answered without a wait.                    *)
(***************************************************************************)
Apology == "I apologize, but I was unable to process your request properly."

FormatApology == "I apologize, but I encountered an error processing your request."

\* return without a call of onProgress
ProgressSilent(handler, text) ==
  [handler EXCEPT !.phase = "done", !.outcome = "returned"]

\* onProgress(text); return
Progress(handler, text) ==
  [handler EXCEPT !.phase = "done", !.outcome = "returned", !.shown = Append(@, text)]

\* what processUserInput does with what 'await this.transport.send' gave
toolResponseText(op) ==
  IF op.out.kind = "rejected" THEN "Error: " \o op.out.message
  ELSE IF op.out.response.result # <<>> /\ Truthy(op.out.response.result[1].text)
  THEN ToStringJS(op.out.response.result[1].text)
  ELSE IF op.out.response.error # NoError
  THEN "Error: " \o op.out.response.error.message
  ELSE FormatApology

\* processUserInput up to 'await this.engine.chatCompletion'; text is the
\* content the engine is going to answer with
OnceProcessUserInput(text) ==
  /\ turn.phase = "idle"
  /\ turn' = IF ~turn.engine
             THEN Progress(turn, "Error: LLM engine not initialized")
             ELSE [turn EXCEPT !.phase = "awaiting", !.text = text]
  /\ lastOp' = Plain("processUserInput")
  /\ UNCHANGED <<started, isTestMode, callbacks, handles, storage, lastResponse,
                 pending, listeners, localStorage, posted>>

\* the engine has answered and no request is sent
OnceNoToolCall ==
  /\ turn.phase = "awaiting"
  /\ LET toolMatch == toolRegexExec(turn.text, 0)
     IN  \/ turn.text = <<>>
         \/ ~toolMatch.found
         \/ JSONParse(toolMatch.params).thrown
  /\ turn' = Progress(turn, Apology)
  /\ lastOp' = Plain("chatCompletion")
  /\ UNCHANGED <<started, isTestMode, callbacks, handles, storage, lastResponse,
                 pending, listeners, localStorage, posted>>

\* the engine has answered with a directive: the request of the first match
\* is sent, the name as it stands between the tags
OnceToolCall ==
  /\ turn.phase = "awaiting"
  /\ LET toolMatch == toolRegexExec(turn.text, 0)
     IN  /\ toolMatch.found
         /\ ~JSONParse(toolMatch.params).thrown
         /\ LET call == ToolCall(toolMatch.name, JSONParse(toolMatch.params).value)
            IN  /\ Send(ToolRequest(call), NoReaction)
                /\ turn' = Progress([turn EXCEPT !.sent = Append(@, ToolRequest(call))],
                                    toolResponseText(lastOp'))

NextOnce ==
  \/ turn.phase \in {"idle", "awaiting"} /\ Start /\ UNCHANGED <<turn, outside>>
  \/ turn.phase \in {"idle", "awaiting"} /\ started /\ Stop /\ UNCHANGED <<turn, outside>>
  \/ Initialize /\ UNCHANGED outside
  \/ \E text \in TurnTexts : OnceProcessUserInput(text) /\ UNCHANGED outside
  \/ OnceNoToolCall /\ UNCHANGED outside
  \/ OnceToolCall /\ UNCHANGED outside

SpecOnce == Init /\ [][NextOnce]_vars

(***************************************************************************)
(* The claims about send, checked under Spec.                              *)
(***************************************************************************)
\* the step is a call of send
IsSend == lastOp'.op = "send"

\* a send or a resumed send has produced a Response
Produced == lastOp.op \in {"send", "resume"} /\ lastOp.out.kind = "resolved"

\* C1: every send on a connected transport, whether its handler succeeds or
\* fails, produces exactly one Response, returned to the caller and delivered
\* once to each registered observer (a send suspended at its await produces
\* it when it resumes).
C1_ExactlyOneResponse ==
  /\ (lastOp.op = "send" /\ started) =>
       lastOp.out.kind \in {"resolved", "suspended"}
  /\ lastOp.op = "resume" => lastOp.out.kind = "resolved"
  /\ Produced => lastOp.calls = callbacks

\* C2: every Response that send produces carries the id of the request that
\* caused it: the Response returned, the one kept as lastResponse, and the
\* one a suspended send produces when it resumes.
C2_ResponseIdIsRequestId ==
  Produced =>
    /\ lastOp.out.response.id = lastOp.message.id
    /\ lastResponse.id = lastOp.message.id

\* a resumed send has produced the Response of request 2 and given it to an
\* observer, after request 1 had its Response
C2_Witness ==
  /\ Produced
  /\ lastOp.op = "resume"
  /\ lastOp.message.id = 2
  /\ lastOp.calls # <<>>

C5_UnknownToolFails ==
  [][(/\ IsSend
      /\ started
      /\ lastOp'.message.method = "tool"
      /\ lastOp'.message.params.name \notin ToolNames) =>
       /\ lastOp'.out = Rejected("Unknown tool")
       /\ storage' = storage]_vars

\* a started transport holding a value has refused a tool it does not know
C5_Witness ==
  /\ started
  /\ lastOp.op = "send"
  /\ lastOp.message.method = "tool"
  /\ lastOp.message.params.name = "nope"
  /\ lastOp.out = Rejected("Unknown tool")
  /\ storage[Str("k")] # Absent

(***************************************************************************)
(* The claim about error codes, checked under SpecCb.                      *)
(***************************************************************************)
\* the kind of failure a message text stands for
ErrorKind(text) ==
  CASE text = "Transport not connected" -> "NotConnected"
    [] text = "Division by zero" -> "DivisionByZero"
    [] text = "Invalid operation" -> "InvalidParams"
    [] text = "Key not found" -> "KeyNotFound"
    [] text = "Unknown tool: nope" -> "UnknownTarget"
    [] text = "Unknown method: bogus" -> "UnknownMethod"
    [] OTHER -> "ExecutionError"

\* the operation gave an observer an error Response
GaveError(o) ==
  o.out.kind = "notified" /\ o.out.response.error # NoError /\ o.calls # <<>>

\* C6: the error Responses of two failures of different kinds carry
\* different codes, so that a caller can tell the kinds apart without
\* reading the message text.
C6_ErrorKindsHaveDistinctCodes ==
  [][(/\ GaveError(lastOp)
      /\ GaveError(lastOp')
      /\ ErrorKind(lastOp.out.response.error.message)
           # ErrorKind(lastOp'.out.response.error.message)) =>
       lastOp.out.response.error.code # lastOp'.out.response.error.code]_vars

\* C7: an observer is invoked with every Response send produces, and sees
\* the Responses in the order of the send calls, also when a send is made
\* while an earlier one has not completed.
C7_ResponsesInCallOrder ==
  Produced => (Range(callbacks) \subseteq Range(lastOp.calls) /\ lastOp.late = {})

(***************************************************************************)
(* The claims about the observers, checked under SpecObs.                  *)
(***************************************************************************)
\* the step is a dispatch of a Response to the observers of a started transport
IsDispatch ==
  started /\ lastOp'.op \in {"send", "resume"} /\ lastOp'.out.kind = "resolved"

\* the registrations of observer c
Registrations(cbs, c) == Cardinality({i \in 1..Len(cbs) : cbs[i] = c})

\* C8: with several observers registered (each of them once), each Response
\* is delivered to each of them exactly once, in the order of their
\* registration.
C8_EachObserverOnceInOrder ==
  [][(IsDispatch /\ \A c \in Range(callbacks) : Registrations(callbacks, c) = 1) =>
       SelectSeq(lastOp'.calls, LAMBDA c : c \in Range(callbacks'))
         = SelectSeq(callbacks, LAMBDA c : c \in Range(callbacks'))]_vars

\* C9: when an observer calls an unsubscribe function during a dispatch, the
\* dispatch completes and every observer that was registered when it began
\* and has not been unsubscribed receives the Response.
C9_UnsubscribeDuringDispatch ==
  [][(IsDispatch /\ callbacks' # callbacks) =>
       Range(callbacks') \subseteq Range(lastOp'.calls)]_vars

\* C10: once the function returned by onMessage(cb) has been called, cb (if
\* it was registered once) is no longer registered, so no later send invokes
\* it, and every other registered observer still receives every Response,
\* the one being dispatched when the function is called included.
C10_UnsubscribedObserverIsGone ==
  [][/\ \A c \in Observers :
          (Unsubscribe(c) /\ Registrations(callbacks, c) = 1) =>
            /\ c \notin Range(callbacks')
            /\ callbacks' = SelectSeq(callbacks, LAMBDA d : d # c)
     /\ \A message \in ObserverRequests, react \in Reactions(callbacks) :
          (/\ Send(message, react) \/ ResumeSend(react)
           /\ IsDispatch
           /\ react.who \in Range(lastOp'.calls)
           /\ Registrations(callbacks, react.target) = 1) =>
            /\ react.target \notin Range(callbacks')
            /\ \A c \in Range(callbacks) \ {react.target} : c \in Range(lastOp'.calls)]_vars

(***************************************************************************)
(* The claim about the lifecycle, checked under SpecObs.                   *)
(***************************************************************************)
\* the fields of the transport and the listeners it has on the window
TransportState ==
  <<started, isTestMode, callbacks, storage, lastResponse, pending, listeners>>

\* C11: stop() and close() make isConnected() false and remove every
\* observer, and change nothing else; a stop() or close() that follows a
\* stop() or close(), or is made on a transport that was never started,
\* leaves the transport as one stop() does; start() makes isConnected() true,
\* also after a stop().
C11_StopIsIdempotent ==
  [][/\ lastOp'.op \in {"stop", "close"} =>
          /\ ~isConnected'
          /\ callbacks' = <<>>
          /\ UNCHANGED <<isTestMode, storage, lastResponse, pending, listeners>>
     /\ (lastOp'.op \in {"stop", "close"} /\ lastOp.op \in {"stop", "close"}) =>
          UNCHANGED TransportState
     /\ (lastOp'.op \in {"stop", "close"} /\ listeners = 0) =>
          (~isConnected' /\ callbacks' = <<>>)
     /\ lastOp'.op = "start" => isConnected']_vars

\* a transport whose observers a stop() removed has been started again
C11_Witness ==
  /\ lastOp.op = "start"
  /\ isConnected
  /\ listeners = 2
  /\ handles # {}
  /\ callbacks = <<>>

(***************************************************************************)
(* The claims about calculate, checked under SpecCalc.                     *)
(***************************************************************************)
\* the request of the last send is a calculate call
IsCalculate(o) == o.op = "send" /\ o.message.method = "tool" /\ o.message.params.name = "calculate"

\* the text of the result of the operation on two numbers
ExpectedText(operation, a, b) ==
  CASE operation = Str("add") -> Str(ToString(a.n + b.n))
    [] operation = Str("subtract") -> Str(ToString(a.n - b.n))
    [] operation = Str("multiply") -> Str(ToString(a.n * b.n))
    [] operation = Str("divide") -> ResultToString(Divide(a, b))

\* C12: for every pair of numbers a, b, zero and negative values included,
\* calculate on a started transport succeeds and returns the text of a+b for
\* add, a-b for subtract, a*b for multiply and, when b is not 0, a/b for
\* divide.
C12_CalculateComputes ==
  LET p == lastOp.message.params.params
  IN  (/\ IsCalculate(lastOp)
       /\ started
       /\ p.a \in Numbers /\ p.b \in Numbers
       /\ p.operation \in {Str("add"), Str("subtract"), Str("multiply"), Str("divide")}
       /\ ~(p.operation = Str("divide") /\ p.b = Num(0))) =>
        /\ lastOp.out.kind = "resolved"
        /\ lastOp.out.response.result
             = <<[type |-> "text", text |-> ExpectedText(p.operation, p.a, p.b)]>>

\* C13: calculate with operation divide and b equal to 0 fails with
\* 'Division by zero' for every a, on every transport that accepts the send;
\* it returns no result and changes neither storage nor lastResponse.
C13_DivisionByZeroFails ==
  [][(/\ IsCalculate(lastOp')
      /\ started \/ isTestMode
      /\ lastOp'.message.params.params.operation = Str("divide")
      /\ lastOp'.message.params.params.b = Num(0)) =>
       /\ lastOp'.out = Rejected("Division by zero")
       /\ UNCHANGED <<storage, lastResponse>>]_vars

\* 0 / 0 was refused on a started transport
C13_Witness ==
  /\ IsCalculate(lastOp)
  /\ started
  /\ lastOp.message.params.params.operation = Str("divide")
  /\ lastOp.message.params.params.a = Num(0)
  /\ lastOp.message.params.params.b = Num(0)
  /\ lastOp.out = Rejected("Division by zero")

\* C14 (calculate): a calculate call whose a or b is missing or is not a
\* number fails with 'Invalid params', whatever the operation and the other
\* operand, and no arithmetic is done.
C14_InvalidOperandsRejected ==
  LET p == lastOp.message.params.params
  IN  (/\ IsCalculate(lastOp)
       /\ started
       /\ p.a \notin Numbers \/ p.b \notin Numbers) =>
        lastOp.out = Rejected("Invalid params")

(***************************************************************************)
(* The claims about the transport's store, checked under SpecStore.        *)
(***************************************************************************)
IsStorageSet(o) ==
  o.op = "send" /\ o.message.method = "tool" /\ o.message.params.name = "storage-set"

IsStorageGet(o) ==
  o.op = "send" /\ o.message.method = "tool" /\ o.message.params.name = "storage-get"

StoredText(id) == ResultResponse(id, Str("Value stored successfully"))

\* C16: a storage-set on a key that already holds a value succeeds like the
\* first one, replaces the value and leaves the values of all other keys
\* unchanged; a storage-get of a key returns the value the key holds, so
\* after storage-set(k,v1), storage-set(k,v2) it returns v2 only.
C16_SecondSetOverwrites ==
  [][LET key == lastOp'.message.params.params.key
         value == lastOp'.message.params.params.value
     IN  /\ (/\ IsStorageSet(lastOp')
             /\ started \/ isTestMode
             /\ key \in MapKeys
             /\ storage[key] # Absent) =>
               /\ lastOp'.out = Resolved(StoredText(lastOp'.message.id))
               /\ storage' = [storage EXCEPT ![key] = value]
         /\ (/\ IsStorageGet(lastOp')
             /\ started \/ isTestMode
             /\ key \in MapKeys
             /\ storage[key] # Absent) =>
               /\ lastOp'.out = Resolved(ResultResponse(lastOp'.message.id, storage[key]))
               /\ storage' = storage
         /\ (/\ IsStorageGet(lastOp')
             /\ IsStorageSet(lastOp)
             /\ lastOp.out.kind = "resolved"
             /\ started \/ isTestMode
             /\ key = lastOp.message.params.params.key) =>
               lastOp'.out = Resolved(ResultResponse(lastOp'.message.id,
                                                     lastOp.message.params.params.value))]_vars

\* key k held v1 when a resource read of it was made (the read is still
\* suspended), was then set to v2, and a storage-get of k now returns v2;
\* key j holds v1
C16_Witness ==
  /\ IsStorageGet(lastOp)
  /\ lastOp.message.params.params.key = Str("k")
  /\ lastOp.out = Resolved(ResultResponse(1, Str("v2")))
  /\ storage[Str("k")] = Str("v2")
  /\ storage[Str("j")] = Str("v1")
  /\ pending # <<>>
  /\ pending[1].message.params.params.key = Str("k")
  /\ pending[1].settled.value = <<[type |-> "text", text |-> Str("v1")]>>

(***************************************************************************)
(* The claims about the server's store, checked under SpecServer.          *)
(***************************************************************************)
IsServerSet(o) == o.op = "callTool" /\ o.message.params.name = "storage-set"

IsServerGet(o) == o.op = "callTool" /\ o.message.params.name = "storage-get"

IsServerRead(o) == o.op = "readResource"

KeyOf(o) == o.message.params.params.key

\* C15: for all strings key and value, a storage-get(key) that follows a
\* successful storage-set(key, value) returns exactly value, a storage-get
\* that follows a storage-get of the same key returns what that one
\* returned, and a get does not change storage.
C15_GetReturnsWhatWasSet ==
  [][/\ (IsServerGet(lastOp') /\ IsServerSet(lastOp) /\ lastOp.out.kind = "returned"
           /\ KeyOf(lastOp') = KeyOf(lastOp)) =>
          lastOp'.out = Returned(lastOp.message.params.params.value)
     /\ (IsServerGet(lastOp') /\ IsServerGet(lastOp) /\ KeyOf(lastOp') = KeyOf(lastOp)) =>
          lastOp'.out = lastOp.out
     /\ IsServerGet(lastOp') => storage' = storage]_vars

TransportUnsetKeyFails ==
  [][LET key == lastOp'.message.params.params.key
     IN  /\ (/\ lastOp'.op = "send"
             /\ lastOp'.message.params.name = "storage-get"
             /\ started \/ isTestMode
             /\ key \in MapKeys /\ Truthy(key)
             /\ storage[key] = Absent) =>
               IF lastOp'.message.method = "tool"
               THEN lastOp'.out = Rejected("Key not found")
               ELSE /\ lastOp'.out = Suspended
                    /\ pending'[Len(pending')].settled.thrown
                    /\ pending'[Len(pending')].settled.message = "Key not found"
         /\ (lastOp'.op = "resume" /\ pending[1].settled.thrown) =>
               lastOp'.out = Rejected(pending[1].settled.message)]_vars

C19_EmptyKeyRejected ==
  [][(IsServerSet(lastOp') /\ ~Truthy(KeyOf(lastOp'))) =>
       /\ lastOp'.out.kind = "rejected"
       /\ storage' = storage]_vars

(***************************************************************************)
(* The order of the write and the Response of storage-set, checked under   *)
(* SpecFromObserver.                                                       *)
(***************************************************************************)
\* C20: the Response of a storage-set exists only once storage holds the new
\* value: when send returns it, the map holds the value under the key, and a
\* storage-get of that key that an observer sends from inside its callback
\* is answered with the value just set, whatever the key held before.
C20_ResponseAfterWrite ==
  [][LET key == lastOp'.message.params.params.key
         value == lastOp'.message.params.params.value
     IN  /\ (/\ lastOp'.op \in {"send", "sendFromObserver"}
             /\ lastOp'.message.params.name = "storage-set"
             /\ lastOp'.out.kind = "resolved") =>
               /\ lastOp'.out.response = StoredText(lastOp'.message.id)
               /\ storage'[key] = value
         /\ (lastOp'.op = "sendFromObserver" /\ IsString(value)) =>
               /\ lastResponse' = ResultResponse(lastOp'.message.id, value)
               /\ Len(lastOp'.calls) > Len(callbacks)]_vars

\* one of two observers asked for key k from inside the dispatch of the
\* Response to storage-set(k, v2) and was answered v2, while key j holds v1
C20_Witness ==
  /\ lastOp.op = "sendFromObserver"
  /\ lastOp.message.params.params.key = Str("k")
  /\ lastOp.message.params.params.value = Str("v2")
  /\ lastResponse = ResultResponse(1, Str("v2"))
  /\ storage[Str("j")] = Str("v1")
  /\ Len(callbacks) = 2
  /\ Len(lastOp.calls) = 4

(***************************************************************************)
(* The claims about parseToolCalls, checked under SpecParse.               *)
(***************************************************************************)
Tags == {ToolOpen, ToolClose, ParamsOpen, ParamsClose}

TagFree(s) == \A n \in 1..Len(s) : s[n] \notin Tags

\* the first place after i that holds piece, 0 if there is none
Following(text, i, piece) ==
  IF \E n \in (i + 1)..Len(text) : text[n] = piece
  THEN Min({n \in (i + 1)..Len(text) : text[n] = piece})
  ELSE 0

\* the grammar at place i: <tool>, a name with no tag in it, </tool>, white
\* space, <params>, a block that ends at the first </params>; the block is a
\* directive when it is a JSON text
DirectiveAt(text, i) ==
  LET j == Following(text, i, ToolClose)
      k == SkipSpace(text, j + 1)
      m == Following(text, k, ParamsClose)
      delimited ==
        /\ text[i] = ToolOpen
        /\ j > 0
        /\ TagFree(SubSeq(text, i + 1, j - 1))
        /\ k <= Len(text)
        /\ text[k] = ParamsOpen
        /\ m > 0
  IN  IF delimited
      THEN [delimited |-> TRUE,
            wellFormed |-> ~JSONParse(SubSeq(text, k + 1, m - 1)).thrown,
            call |-> ToolCall(Trim(SubSeq(text, i + 1, j - 1)),
                              JSONParse(SubSeq(text, k + 1, m - 1)).value),
            end |-> m]
      ELSE [delimited |-> FALSE, wellFormed |-> FALSE, call |-> ToolCall(<<>>, ""),
            end |-> i]

\* the well-formed directives of a text from place i on, from left to right;
\* a block whose JSON is malformed is passed over as a whole
RECURSIVE DirectivesFrom(_, _)
DirectivesFrom(text, i) ==
  IF i > Len(text) THEN <<>>
  ELSE LET d == DirectiveAt(text, i)
       IN  (IF d.wellFormed THEN <<d.call>> ELSE <<>>) \o DirectivesFrom(text, d.end + 1)

Directives(text) == DirectivesFrom(text, 1)

\* C21: parseToolCalls returns one tool call for every well-formed directive
\* of the text, from left to right, each with the trimmed name and the parsed
\* params; a text with no well-formed directive gives the empty sequence.
C21_OneCallPerDirective ==
  lastOp.op = "parseToolCalls" =>
    /\ lastOp.out.kind = "returned"
    /\ lastOp.out.response = Directives(turn.text)

\* the scan of parseToolCalls meets a match whose params JSON.parse rejects
RECURSIVE MalformedFrom(_, _)
MalformedFrom(text, lastIndex) ==
  LET match == toolRegexExec(text, lastIndex)
  IN  /\ match.found
      /\ JSONParse(match.params).thrown \/ MalformedFrom(text, match.lastIndex)

\* C22: when the scan meets a directive whose params are not valid JSON,
\* parseToolCalls does not throw: it drops that directive and still returns
\* every well-formed directive of the text, those before and those after the
\* malformed one, in order.
C22_MalformedDirectiveDropped ==
  (lastOp.op = "parseToolCalls" /\ MalformedFrom(turn.text, 0)) =>
    /\ lastOp.out.kind = "returned"
    /\ lastOp.out.response = Directives(turn.text)

(***************************************************************************)
(* The claims about a turn of the streaming LLMHandler, checked under      *)
(* SpecTurn.                                                               *)
(***************************************************************************)
\* the requests of the tool calls, in order
RequestsOf(toolCalls) == [i \in 1..Len(toolCalls) |-> ToolRequest(toolCalls[i])]

\* C23: in a streamed turn, however the output is cut into chunks, every
\* well-formed directive of the complete output is dispatched exactly once:
\* the requests sent in the turn are those of its directives, in order.
C23_EachDirectiveDispatchedOnce ==
  turn.outcome = "returned" => turn.sent = RequestsOf(Directives(turn.text))

\* the step is a tool call of executeToolCalls that failed with this text
CallFailed(text) ==
  /\ turn.phase \in {"executing", "remaining"}
  /\ lastOp'.op = "send"
  /\ lastOp'.out = Rejected(text)

\* what executeToolCalls records for the call that failed in this step
FailureText == "Tool " \o lastOp'.message.params.name \o " failed: Error: " \o lastOp'.out.message

\* the errors of the tools
ToolErrors == {"Division by zero", "Key not found", "Invalid params", "Key is required",
               "Unknown tool"}

C27_NotConnectedEndsTurn ==
  [][CallFailed("Transport not connected") =>
       /\ turn'.outcome = "rejected"
       /\ turn'.phase = "done"
       /\ turn'.results = <<>>
       /\ turn'.messages = turn.messages]_vars

(***************************************************************************)
(* The claims about a turn of the LLMHandler of llm.ts, checked under      *)
(* SpecOnce.                                                               *)
(***************************************************************************)
\* the turn of an initialized handler has ended
TurnDone == turn.phase = "done" /\ turn.engine

\* C24: the driver dispatches every directive of the model output, in source
\* order: the requests sent in a turn carry the params of the directives of
\* the text, one request for each directive, in their order.
C24_EveryDirectiveInOrder ==
  TurnDone =>
    [i \in 1..Len(turn.sent) |-> turn.sent[i].params.params]
      = [i \in 1..Len(Directives(turn.text)) |-> ParamsOf(Directives(turn.text)[i].params)]

\* C28: when the output of the model holds no directive, the turn ends with
\* the text of the model given to the caller, and nothing else; no request
\* is sent.
C28_ProseIsTheAnswer ==
  (TurnDone /\ turn.text # <<>> /\ Directives(turn.text) = <<>>) =>
    /\ turn.outcome = "returned"
    /\ turn.sent = <<>>
    /\ turn.shown = <<Join(turn.text)>>

(***************************************************************************)
(* The claim about getLastResponse, checked under Spec.                    *)
(***************************************************************************)
\* C29: after any send that resolves, getLastResponse() returns the Response
\* this send returned, whatever sends came before it.
C29_LastResponseIsTheReturned ==
  Produced => getLastResponse = lastOp.out.response

\* a storage-get has resolved with the value an earlier send stored, and
\* getLastResponse() returns its Response, no longer the one of that send
C29_Witness ==
  /\ lastOp.op = "send"
  /\ lastOp.out.kind = "resolved"
  /\ lastOp.message.params.name = "storage-get"
  /\ lastOp.out.response.error = NoError
  /\ getLastResponse = lastOp.out.response

(***************************************************************************)
(* The claim about window 'message' events, checked under SpecObs.         *)
(***************************************************************************)
\* C30: while the transport is started, a window 'message' event of type
\* 'mcp-message' is delivered to every observer that is registered (before
\* the event and after it); an event of any other type invokes no observer.
C30_WindowMessageReachesObservers ==
  [][\A type \in EventTypes, react \in Reactions(callbacks) :
       (started /\ WindowMessage(type, react)) =>
         IF type = "mcp-message"
         THEN \A c \in Range(callbacks) \cap Range(callbacks') : c \in Range(lastOp'.calls)
         ELSE lastOp'.calls = <<>>]_vars

(***************************************************************************)
(* The claim about a send that fails, checked under Spec.                  *)
(***************************************************************************)
\* the step is a send, or a resumed send, whose promise rejects
SendFailed == lastOp'.op \in {"send", "resume"} /\ lastOp'.out.kind = "rejected"

\* C36: a send that fails changes nothing: getLastResponse(), the storage
\* map and the observer list are what they were, and no observer is invoked.
C36_FailedSendChangesNothing ==
  [][SendFailed =>
       /\ lastResponse' = lastResponse
       /\ storage' = storage
       /\ callbacks' = callbacks
       /\ lastOp'.calls = <<>>]_vars

\* a division by zero was rejected on a transport that has an observer, a
\* stored value and the Response of an earlier send
C36_Witness ==
  /\ lastOp.op = "send"
  /\ lastOp.out = Rejected("Division by zero")
  /\ lastResponse # NoResponse
  /\ callbacks # <<>>
  /\ \E k \in MapKeys : storage[k] # Absent

(***************************************************************************)
(* The claim about the window listener, checked under SpecObs.             *)
(***************************************************************************)
\* C37: after any start(), stop() and close() calls the transport has one
\* window listener while isConnected() is true and none while it is false;
\* a window event reaches no observer while the transport is stopped and
\* reaches an observer at most once.
C37_OneListenerWhileConnected ==
  /\ listeners = (IF isConnected THEN 1 ELSE 0)
  /\ lastOp.op = "window" =>
       /\ ~isConnected => lastOp.calls = <<>>
       /\ \A i, j \in 1..Len(lastOp.calls) : lastOp.calls[i] = lastOp.calls[j] => i = j

C32_TurnTerminates ==
  (turn.phase \in {"streaming", "executing", "remaining"}) ~> (turn.phase = "done")

\* a turn with two tool calls, one run while the engine was writing and one
\* after the end of the stream, has returned
C32_Witness ==
  /\ turn.phase = "done"
  /\ turn.outcome = "returned"
  /\ Len(turn.sent) = 2
  /\ turn.lastToolCallIndex > 0
  /\ turn.lastToolCallIndex < Len(turn.currentResponse)

\* C33: the requests of one turn have ids that differ from one another,
\* whether or not the clock advances between two of them.
C33_RequestIdsDistinct ==
  \A i, j \in 1..Len(turn.sent) :
    turn.sent[i].id = turn.sent[j].id => i = j

\* what server s answers a storage-get or a read of the storage resource
\* with when only what was stored through s counts
OwnStorageGet(s, key) ==
  IF ~Truthy(MapGet(servers.made[s], key)) THEN Rejected("Key not found")
  ELSE Returned(MapGet(servers.made[s], key))

OwnReadResource(s, key) ==
  IF ~Truthy(key) THEN Rejected("Missing key parameter")
  ELSE IF ~Truthy(MapGet(servers.made[s], key)) THEN Returned(Str("Key not found"))
  ELSE Returned(MapGet(servers.made[s], key))

\* C34: what a storage-get or a read of the storage resource through one
\* server answers depends only on what was stored through that server: a
\* value stored through another server is not seen, and a server that has
\* stored nothing answers as an empty storage does.
C34_ServersShareNoStorage ==
  /\ (lastOp.op = "callTool" /\ lastOp.message.params.name = "storage-get"
        /\ servers.called # 0)
       => lastOp.out = OwnStorageGet(servers.called, lastOp.message.params.params.key)
  /\ (lastOp.op = "readResource" /\ servers.called # 0)
       => lastOp.out = OwnReadResource(servers.called, lastOp.message.params.params.key)

\* C31: when the search service fails, the tavily-search handler does not
\* throw and does not return a successful result: its outcome is an error of
\* kind ExecutionError that carries the message of the service.
C31_SearchFailureIsAnError ==
  (lastOp.op = "callTool" /\ lastOp.message.params.name = "tavily-search"
     /\ upstream # "up")
    => lastOp.out = [kind |-> "ExecutionError", response |-> NoResponse,
                     message |-> upstream]

\* C35: a caller that awaits its send and then reads getLastResponse()
\* obtains the Response of its own request, also when a 'resource' send and
\* a 'tool' send overlap.
C35_CallerReadsItsOwnResponse ==
  lastOp.op = "read" => lastOp.out.response.id = lastOp.message.id

\* C39: for every event of type 'mcp-tool-request' that carries a message the
\* listener posts exactly one 'mcp-tool-response' whose response.id is the id
\* of the message, whether the tool succeeds, fails or is unknown (for
\* tavily-search it posts it when the search has settled); an event of
\* another type makes it post nothing.
C39_OneResponsePerRequest ==
  [][/\ (lastOp'.op = "request" /\ lastOp'.out.kind = "posted")
          => /\ Len(posted') = Len(posted) + 1
             /\ posted'[Len(posted')].type = "mcp-tool-response"
             /\ posted'[Len(posted')].response.id = lastOp'.message.id
             /\ pending' = pending
     /\ (lastOp'.op = "request" /\ lastOp'.out.kind = "suspended")
          => /\ posted' = posted
             /\ pending' = Append(pending, pending'[Len(pending')])
             /\ pending'[Len(pending')].message = lastOp'.message
     /\ lastOp'.op = "request"
          => lastOp'.out.kind \in {"posted", "suspended"} \/ lastOp'.message = NoMessage
     /\ lastOp'.op = "settle"
          => /\ pending # <<>>
             /\ pending' = Tail(pending)
             /\ Len(posted') = Len(posted) + 1
             /\ posted'[Len(posted')].type = "mcp-tool-response"
             /\ posted'[Len(posted')].response.id = pending[1].message.id
     /\ lastOp'.op = "event"
          => /\ Len(posted') <= Len(posted)
             /\ pending' = pending]_vars

\* an unknown tool asked for under an id that is not the id of the event:
\* the error Response posted carries the id of the message
C39_Witness ==
  /\ lastOp.op = "request"
  /\ lastOp.message.params.name = "nope"
  /\ lastOp.message.id = 2
  /\ posted # <<>>
  /\ posted[Len(posted)].id = 1
  /\ posted[Len(posted)].response.id = 2
  /\ posted[Len(posted)].response.error.message = "Unknown tool: nope"

====
